---- MODULE Spec2Model ----
(***************************************************************************)
(* Model of the Gmail forwarding-confirmation service                      *)
(* (src/src/emailService.ts with src/src/utils/metrics.ts).                *)
(*                                                                         *)
(* Every invocation of acceptEmailForwardingRequest is a sequential        *)
(* pipeline of awaits.  One step of the model is the completion of one     *)
(* await (a driver call or a timer) together with the synchronous code     *)
(* that follows it up to the next await.  The headless-browser driver and  *)
(* the Gmail page are not controlled by the program: every driver call     *)
(* nondeterministically resolves or rejects, and every read of the page    *)
(* returns any of a small set of texts.                                    *)
(***************************************************************************)
EXTENDS Integers, Sequences, FiniteSets, TLC

VARIABLES
    pc,                      \* position of each invocation
    url,                     \* requestBody.url
    browser,                 \* let browser: Browser | undefined
    launchIdx,               \* position of launchBrowser in its fallback chain
    attempt,                 \* loop counter of the navigation / verification loop
    alreadyConfirmed,        \* const alreadyConfirmed (pre-click detection)
    isConfirmed,             \* let isConfirmed (post-click verification)
    checkSite,               \* call site checkIfAlreadyConfirmed returns to
    selIdx,                  \* position in clickConfirmationButton's selectors
    buttons,                 \* number of elements page.$$ returned to the text scan
    btnIdx,                  \* position of the text scan in buttons
    error,                   \* the exception caught by the catch clause
    result,                  \* the EmailForwardingResult returned
    driverUsed,              \* history: some driver operation was invoked and settled
    launched,                \* history: browser handles puppeteer.launch returned
    closeCalls,              \* history: invocations of browser.close()
    closeFailed,             \* history: an invocation of browser.close() raised
    clickTried,              \* history: click() was invoked
    clicks,                  \* history: invocations of click() that succeeded
    clickedHidden,           \* history: a click() succeeded on a control not visible
    verifyChecks,            \* history: detector runs of the verification loop
    ended,                   \* history: arguments of trackEmailForwardingEnd calls
    nextHandle,              \* driver: next fresh browser handle
    openHandles,             \* driver: handles launched and not yet closed
    launchLog,               \* history: configurations whose launch failed
    navigationSuccess,       \* let navigationSuccess (None before its declaration)
    now,                     \* the clock: the value Date.now() returns
    operationStart,          \* const operationStart
    responseTime,            \* const responseTime, the result's responseTime field
    httpStatus,              \* HTTP layer: status of the response sent (res.headersSent)
    clientGone,              \* HTTP layer: the caller has closed the connection
    req,                     \* HTTP layer: the Express request (path, headers, body)
    writes,                  \* HTTP layer: the writes made on the Express response
    hstage,                  \* HTTP layer: position of the request in the app
    diagFailed,              \* history: page.$$eval of the diagnostic inventory raised
    fnCall,                  \* a call of validateForwardingUrl or of the detector on its own
    puppeteerBrowsersActive  \* metrics gauge

vars == <<pc, url, browser, launchIdx, attempt, alreadyConfirmed, isConfirmed,
          checkSite, selIdx, buttons, btnIdx, error, result, driverUsed,
          launched, closeCalls, closeFailed, clickTried, clicks, clickedHidden,
          verifyChecks,
          ended, nextHandle, puppeteerBrowsersActive, launchLog,
          navigationSuccess, now, operationStart, responseTime,
          httpStatus, clientGone, openHandles, req, writes, hstage, diagFailed, fnCall>>

loopVars   == <<launchIdx, attempt, selIdx, buttons, btnIdx>>
detVars    == <<alreadyConfirmed, isConfirmed, checkSite, verifyChecks>>
closeVars  == <<closeCalls, closeFailed>>
clickVars  == <<clickTried, clicks, clickedHidden>>
outVars    == <<error, result>>
metricVars == <<ended, puppeteerBrowsersActive>>
handleVars == <<launched, nextHandle>>
timeVars   == <<now, operationStart, responseTime>>
httpVars   == <<httpStatus, clientGone>>
apiVars    == <<req, writes, hstage>>

(***************************************************************************)
(* Bounds of the model                                                     *)
(***************************************************************************)
\* the requests that may be in flight together; they share no variable of
\* emailService.ts, only the driver and the metrics gauge
Requests == {1, 2}

\* largest number of button-like elements page.$$ returns
MaxButtons == 2

(***************************************************************************)
(* Optional values ( T | undefined )                                       *)
(***************************************************************************)
None == {}
Some(v) == {v}

(***************************************************************************)
(* Strings are sequences of characters                                     *)
(***************************************************************************)
UpperCase == <<"A","B","C","D","E","F","G","H","I","J","K","L","M",
               "N","O","P","Q","R","S","T","U","V","W","X","Y","Z">>
LowerCase == <<"a","b","c","d","e","f","g","h","i","j","k","l","m",
               "n","o","p","q","r","s","t","u","v","w","x","y","z">>

\* String.prototype.toLowerCase on one character
LowerChar(c) ==
    IF \E i \in 1..Len(UpperCase) : UpperCase[i] = c
    THEN LowerCase[CHOOSE i \in 1..Len(UpperCase) : UpperCase[i] = c]
    ELSE c

toLowerCase(s) == [i \in 1..Len(s) |-> LowerChar(s[i])]

\* String.prototype.includes
includes(s, t) ==
    \E i \in 0..(Len(s) - Len(t)) : SubSeq(s, i + 1, i + Len(t)) = t

(***************************************************************************)
(* validateForwardingUrl: /^https:\/\/mail-settings\.google\.com\/mail/    *)
(***************************************************************************)
UrlPrefix == <<"h","t","t","p","s",":","/","/","m","a","i","l","-","s","e","t",
               "t","i","n","g","s",".","g","o","o","g","l","e",".","c","o","m",
               "/","m","a","i","l">>

\* mutant of validateForwardingUrl: the pattern is not anchored at the start
validateForwardingUrl_Unanchored(u) == includes(u, UrlPrefix)

validateForwardingUrl(u) ==
    /\ Len(u) >= Len(UrlPrefix)
    /\ SubSeq(u, 1, Len(UrlPrefix)) = UrlPrefix

\* the URLs a caller submits
ValidUrl        == UrlPrefix \o <<"/","u","/","0">>
HttpUrl         == <<"h","t","t","p",":","/","/">> \o SubSeq(UrlPrefix, 9, Len(UrlPrefix))
UpperUrl        == <<"H","T","T","P","S">> \o SubSeq(UrlPrefix, 6, Len(UrlPrefix))
ShiftedUrl      == <<" ">> \o UrlPrefix
TruncatedUrl    == SubSeq(UrlPrefix, 1, Len(UrlPrefix) - 1)
OtherHostUrl    == <<"h","t","t","p","s",":","/","/","e","x","a","m","p","l","e",
                     ".","c","o","m","/","m","a","i","l">>
Urls == {ValidUrl, HttpUrl, UpperUrl, ShiftedUrl, TruncatedUrl,
         OtherHostUrl, <<>>}

(***************************************************************************)
(* launchBrowser: the fallback chain of launch configurations              *)
(***************************************************************************)
commonPaths == <<"/usr/bin/chromium", "/usr/bin/google-chrome-stable",
                 "/usr/bin/chromium-browser", "/usr/bin/google-chrome",
                 "/snap/bin/chromium">>

headlessModes == <<"true", "false">>

\* the configuration of the first attempt (launchOptions)
PrimaryConfig ==
    [executablePath |-> "configured", headless |-> "new", args |-> "browserArgs"]

\* mutant of PathConfig: the loops are nested the other way round (for each
\* headless mode, every path)
PathConfig_ModeMajor(k) ==
    [executablePath |-> commonPaths[((k - 1) % Len(commonPaths)) + 1],
     headless       |-> headlessModes[((k - 1) \div Len(commonPaths)) + 1],
     args           |-> "minimal"]

\* pathOptions of the nested loops: path-major, mode-minor
PathConfig(k) ==
    [executablePath |-> commonPaths[((k - 1) \div Len(headlessModes)) + 1],
     headless       |-> headlessModes[((k - 1) % Len(headlessModes)) + 1],
     args           |-> "minimal"]

\* autoOptions of the last loop
AutoConfig(k) ==
    [executablePath |-> "auto", headless |-> headlessModes[k], args |-> "minimal"]

LaunchChain ==
    <<PrimaryConfig>>
    \o [k \in 1..(Len(commonPaths) * Len(headlessModes)) |-> PathConfig(k)]
    \o [k \in 1..Len(headlessModes) |-> AutoConfig(k)]

(***************************************************************************)
(* checkIfAlreadyConfirmed: the phrases and the texts a page may show      *)
(***************************************************************************)
confirmationTexts == {
    <<"m","a","y"," ","n","o","w"," ","f","o","r","w","a","r","d"," ","m","a","i","l"," ","t","o">>,
    <<"f","o","r","w","a","r","d","i","n","g"," ","i","s"," ","e","n","a","b","l","e","d">>,
    <<"f","o","r","w","a","r","d","i","n","g"," ","h","a","s"," ","b","e","e","n"," ","c","o","n","f","i","r","m","e","d">>,
    <<"s","u","c","c","e","s","s","f","u","l","l","y"," ","c","o","n","f","i","r","m","e","d">> }

\* document.body.textContent of the pages the service may be shown
PageTexts == {
    <<>>,
    <<"Y","o","u"," ","m","a","y"," ","n","o","w"," ","f","o","r","w","a","r","d"," ","m","a","i","l"," ","t","o"," ","x">>,
    <<"F","o","r","w","a","r","d","i","n","g"," ","I","s"," ","E","N","A","B","L","E","D">>,
    <<"u","n","s","u","c","c","e","s","s","f","u","l","l","y"," ","c","o","n","f","i","r","m","e","d">>,
    <<"f","o","r","w","a","r","d","i","n","g"," ","i","s"," ","n","o","t"," ","e","n","a","b","l","e","d">>,
    <<"P","l","e","a","s","e"," ","c","o","n","f","i","r","m">> }

\* mutant of isConfirmedText: the page text is not lower-cased
isConfirmedText_CaseSensitive(text) ==
    \E phrase \in confirmationTexts : includes(text, phrase)

\* confirmationTexts.some(text => pageText.includes(text)), pageText lower-cased
isConfirmedText(text) ==
    \E phrase \in confirmationTexts : includes(toLowerCase(text), phrase)

\* lines 207-240 as a function of what the page does: waitForSelector
\* settles or raises, page.evaluate returns the text or raises; either
\* exception is caught and the result is false
checkIfAlreadyConfirmed(waitOk, evalOk, text) ==
    IF waitOk /\ evalOk THEN isConfirmedText(text) ELSE FALSE

(***************************************************************************)
(* clickConfirmationButton: the selectors and the texts of buttons         *)
(***************************************************************************)
selectors == <<"input[value='Confirm']", "input[value*='Confirm']",
               "button[type='submit']", "input[type='submit'][value*='Confirm']",
               "button:contains('Confirm')", "input[value='Yes']",
               "button[value='Yes']">>

\* selector.includes(':contains(')
isContainsSelector(i) == i = 5

\* el.textContent || value || '' of the button-like elements of a page
ButtonTexts == { <<"C","o","n","f","i","r","m">>, <<"Y","E","S">>,
                 <<"C","a","n","c","e","l">>, <<>> }

\* text.toLowerCase().includes('confirm') || text.toLowerCase().includes('yes')
buttonMatches(text) ==
    \/ includes(toLowerCase(text), <<"c","o","n","f","i","r","m">>)
    \/ includes(toLowerCase(text), <<"y","e","s">>)

NavAttempts    == 3
VerifyAttempts == 3

(***************************************************************************)
(* Errors and results                                                      *)
(***************************************************************************)
\* new EmailForwardingError(message, code, email, url)
EmailForwardingError(message, code, u) ==
    [name |-> "EmailForwardingError", message |-> message, code |-> code,
     email |-> None, url |-> u]

\* an exception raised by the driver: not an EmailForwardingError
DriverError ==
    [name |-> "Error", message |-> "driver failure", code |-> "", email |-> None,
     url |-> None]

InvalidUrlError(u) ==
    EmailForwardingError("Invalid Gmail forwarding URL format", "INVALID_URL_FORMAT",
                         Some(u))
LaunchFailedError ==
    EmailForwardingError("Failed to launch browser after trying all fallback options",
                         "BROWSER_LAUNCH_FAILED", None)
ButtonNotFoundError ==
    EmailForwardingError("No confirmation button found", "BUTTON_NOT_FOUND", None)
\* lines 382-389
NavigationFailedError(u) ==
    EmailForwardingError("Failed to navigate to confirmation page after multiple attempts",
                         "NAVIGATION_FAILED", Some(u))
ConfirmationFailedError(u) ==
    EmailForwardingError("Confirmation failed - page did not update as expected",
                         "CONFIRMATION_FAILED", Some(u))

AlreadyConfirmedResult(u) ==
    [success |-> TRUE, message |-> "Email forwarding already confirmed",
     email |-> None, url |-> Some(u), alreadyConfirmed |-> Some(TRUE)]
ConfirmedResult(u) ==
    [success |-> TRUE, message |-> "Email forwarding confirmed successfully",
     email |-> None, url |-> Some(u), alreadyConfirmed |-> Some(FALSE)]
\* mutant of FailureResult: the failure results carry alreadyConfirmed: true
FailureResult_Flagged(e, u) ==
    IF e.name = "EmailForwardingError"
    THEN [success |-> FALSE, message |-> e.message, email |-> e.email,
          url |-> e.url, alreadyConfirmed |-> Some(TRUE)]
    ELSE [success |-> FALSE, message |-> "Internal error during email forwarding process",
          email |-> None, url |-> Some(u), alreadyConfirmed |-> Some(TRUE)]

\* the two return statements of the catch clause
FailureResult(e, u) ==
    IF e.name = "EmailForwardingError"
    THEN [success |-> FALSE, message |-> e.message, email |-> e.email,
          url |-> e.url, alreadyConfirmed |-> None]
    ELSE [success |-> FALSE, message |-> "Internal error during email forwarding process",
          email |-> None, url |-> Some(u), alreadyConfirmed |-> None]

(***************************************************************************)
(* The Express application: requests and responses                         *)
(***************************************************************************)
\* config.auth of the deployment the API-key documentation describes
apiKeyRequired == TRUE
apiKeys        == {"efs-key"}

\* what a caller may send
Paths        == {"/accept-forwarding", "/health", "/metrics", "/api-docs"}
KeyInputs    == {None, Some("efs-key"), Some("other-key")}
IdInputs     == {None, Some(""), Some("custom-id")}
BodyInputs   == {None} \cup {Some(u) : u \in Urls}
\* Math.random().toString(36).substring(2, 15)
GeneratedIds == {"gen-a", "gen-b"}

NoRequest ==
    [path |-> "", apiKey |-> None, sentId |-> None, requestId |-> None,
     body |-> None, limited |-> FALSE]

\* one res.status(status).json(body): the fields of the body the claims speak
\* about, the code that wrote it, and whether the write went out or raised
\* because the headers were already sent
Write(status, by, id, timestamp, sent) ==
    [status |-> status, by |-> by, requestId |-> id, timestamp |-> timestamp,
     sent |-> sent]

\* existingRequestId || Math.random()...: an absent or empty header is falsy
requestIdOf(sid, gen) ==
    IF sid = None \/ sid = Some("") THEN Some(gen) ELSE sid

\* Joi.string().uri({ scheme: ['http', 'https'] }).required()
HttpScheme  == <<"h","t","t","p",":","/","/">>
HttpsScheme == <<"h","t","t","p","s",":","/","/">>
isHttpUri(u) ==
    \/ Len(u) > Len(HttpScheme) /\ SubSeq(u, 1, Len(HttpScheme)) = HttpScheme
    \/ Len(u) > Len(HttpsScheme) /\ SubSeq(u, 1, Len(HttpsScheme)) = HttpsScheme
schemaAccepts(b) == \E u \in b : isHttpUri(u)

\* apiKeyAuth of the middleware module: the status it answers with, or 0 when
\* it calls next()
apiKeyAuth(path, key) ==
    IF ~apiKeyRequired THEN 0
    ELSE IF path \in {"/health", "/metrics", "/api-docs"} THEN 0
    ELSE IF key = None THEN 401
    ELSE IF ~(key \subseteq apiKeys) THEN 403
    ELSE 0

(***************************************************************************)
(* Calls of validateForwardingUrl and of the detector on their own: the    *)
(* arguments are put together from a lead, a core and a tail               *)
(***************************************************************************)
toUpperCase(s) ==
    [i \in 1..Len(s) |->
        IF \E k \in 1..Len(LowerCase) : LowerCase[k] = s[i]
        THEN UpperCase[CHOOSE k \in 1..Len(LowerCase) : LowerCase[k] = s[i]]
        ELSE s[i]]

UrlLeads == { <<>>, <<" ">>, <<"x","?","u","=">> }
UrlCores == { UrlPrefix, toUpperCase(UrlPrefix), UpperUrl, HttpUrl, OtherHostUrl,
              TruncatedUrl,
              SubSeq(UrlPrefix, 1, 8) \o SubSeq(UrlPrefix, 23, Len(UrlPrefix)),
              SubSeq(UrlPrefix, 1, 21) \o <<"x">> \o SubSeq(UrlPrefix, 23, Len(UrlPrefix)) }
UrlTails == { <<>>, <<"/","u","/","0">>, <<"?","a","=","b">> }

TextLeads == { <<>>, <<"Y","o","u"," ">> }
TextCores ==
    confirmationTexts
    \cup { toUpperCase(p) : p \in confirmationTexts }
    \cup { SubSeq(p, 1, Len(p) - 1) : p \in confirmationTexts }
    \cup { p \o <<" ">> \o q : p, q \in confirmationTexts }
    \cup { <<>>, <<"P","l","e","a","s","e"," ","c","o","n","f","i","r","m">> }
TextTails == { <<>>, <<" ","x">> }

NoCall ==
    [fn |-> "none", lead |-> <<>>, core |-> <<>>, tail |-> <<>>,
     raised |-> FALSE, out |-> None]

Calls ==
    { [fn |-> "validateForwardingUrl", lead |-> l, core |-> c, tail |-> t,
       raised |-> FALSE, out |-> None] :
          l \in UrlLeads, c \in UrlCores, t \in UrlTails }
    \cup
    { [fn |-> "checkIfAlreadyConfirmed", lead |-> l, core |-> c, tail |-> t,
       raised |-> FALSE, out |-> None] :
          l \in TextLeads, c \in TextCores, t \in TextTails }

\* the argument of the call
Argument(c) == c.lead \o c.core \o c.tail

(***************************************************************************)
(* Control                                                                 *)
(***************************************************************************)
Goto(r, l) == pc' = [pc EXCEPT ![r] = l]

\* an exception reaches the catch clause of acceptEmailForwardingRequest
Throw(r, e) ==
    /\ pc' = [pc EXCEPT ![r] = "catch"]
    /\ error' = [error EXCEPT ![r] = Some(e)]

\* return of a result to the caller
Return(r, res) ==
    /\ pc' = [pc EXCEPT ![r] = "done"]
    /\ result' = [result EXCEPT ![r] = Some(res)]

trackEmailForwardingStart ==
    puppeteerBrowsersActive' = puppeteerBrowsersActive + 1

trackEmailForwardingEnd(r, success) ==
    /\ ended' = [ended EXCEPT ![r] = Append(@, success)]
    /\ puppeteerBrowsersActive' = puppeteerBrowsersActive - 1

\* const responseTime = Date.now() - operationStart (lines 397, 428, 452)
SetResponseTime(r) ==
    responseTime' = [responseTime EXCEPT ![r] = Some(now - operationStart[r])]

\* the state of the service after start-up: no invocation, no request
InitService ==
    /\ pc = [r \in Requests |-> "idle"]
    /\ url = [r \in Requests |-> <<>>]
    /\ browser = [r \in Requests |-> None]
    /\ launchIdx = [r \in Requests |-> 0]
    /\ attempt = [r \in Requests |-> 0]
    /\ alreadyConfirmed = [r \in Requests |-> None]
    /\ isConfirmed = [r \in Requests |-> FALSE]
    /\ checkSite = [r \in Requests |-> "none"]
    /\ selIdx = [r \in Requests |-> 0]
    /\ buttons = [r \in Requests |-> 0]
    /\ btnIdx = [r \in Requests |-> 0]
    /\ error = [r \in Requests |-> None]
    /\ result = [r \in Requests |-> None]
    /\ driverUsed = [r \in Requests |-> FALSE]
    /\ launched = [r \in Requests |-> {}]
    /\ closeCalls = [r \in Requests |-> 0]
    /\ closeFailed = [r \in Requests |-> FALSE]
    /\ clickTried = [r \in Requests |-> FALSE]
    /\ clicks = [r \in Requests |-> 0]
    /\ clickedHidden = [r \in Requests |-> FALSE]
    /\ verifyChecks = [r \in Requests |-> 0]
    /\ ended = [r \in Requests |-> <<>>]
    /\ nextHandle = 1
    /\ openHandles = {}
    /\ puppeteerBrowsersActive = 0
    /\ launchLog = [r \in Requests |-> <<>>]
    /\ navigationSuccess = [r \in Requests |-> None]
    /\ now = 0
    /\ operationStart = [r \in Requests |-> 0]
    /\ responseTime = [r \in Requests |-> None]
    /\ httpStatus = [r \in Requests |-> None]
    /\ clientGone = [r \in Requests |-> FALSE]
    /\ req = [r \in Requests |-> NoRequest]
    /\ writes = [r \in Requests |-> <<>>]
    /\ hstage = [r \in Requests |-> "none"]
    /\ diagFailed = [r \in Requests |-> FALSE]

Init == InitService /\ fnCall = NoCall

(***************************************************************************)
(* acceptEmailForwardingRequest, up to the launch                          *)
(***************************************************************************)
\* mutant of Invoke: the URL is not validated before the browser is launched
Invoke_NoValidation(r) ==
    /\ pc[r] = "idle"
    /\ \E u \in Urls :
        /\ url' = [url EXCEPT ![r] = u]
        /\ operationStart' = [operationStart EXCEPT ![r] = now]
        /\ trackEmailForwardingStart
        /\ Goto(r, "launch")
        /\ launchIdx' = [launchIdx EXCEPT ![r] = 1]
    /\ UNCHANGED <<diagFailed, fnCall, apiVars, openHandles, httpVars, now,
                   responseTime,
                   navigationSuccess,
                   launchLog, browser, attempt, selIdx, buttons, btnIdx,
                   detVars, outVars, driverUsed, handleVars, closeVars,
                   clickVars, ended>>

\* lines 320-344: the call, the URL validation and the call of launchBrowser,
\* which runs to its first puppeteer.launch
Invoke(r) ==
    /\ pc[r] = "idle"
    /\ \E u \in Urls :
        /\ url' = [url EXCEPT ![r] = u]
        /\ operationStart' = [operationStart EXCEPT ![r] = now]
        /\ trackEmailForwardingStart
        /\ IF ~validateForwardingUrl(u)
           THEN /\ Throw(r, InvalidUrlError(u))
                /\ UNCHANGED <<launchIdx, driverUsed>>
           ELSE /\ Goto(r, "launch")
                /\ launchIdx' = [launchIdx EXCEPT ![r] = 1]
                /\ UNCHANGED <<error, driverUsed>>
    /\ UNCHANGED <<diagFailed, fnCall, apiVars, openHandles, httpVars, now,
                   responseTime,
                   navigationSuccess,
                   launchLog, browser, attempt, selIdx, buttons, btnIdx,
                   detVars, result, handleVars, closeVars, clickVars, ended>>

\* mutant of LaunchAttempt: a successful launch does not leave the chain, the
\* next configuration is launched as well
LaunchAttempt_NoShortCircuit(r) ==
    /\ pc[r] = "launch"
    /\ driverUsed' = [driverUsed EXCEPT ![r] = TRUE]
    /\ \E ok \in BOOLEAN :
        /\ IF ok
           THEN /\ browser' = [browser EXCEPT ![r] = Some(nextHandle)]
                /\ launched' = [launched EXCEPT ![r] = @ \cup {nextHandle}]
                /\ openHandles' = openHandles \cup {nextHandle}
                /\ nextHandle' = nextHandle + 1
           ELSE UNCHANGED <<browser, handleVars, openHandles>>
        /\ launchLog' = [launchLog EXCEPT ![r] =
                             IF ok THEN @ ELSE Append(@, LaunchChain[launchIdx[r]])]
        /\ IF launchIdx[r] < Len(LaunchChain)
           THEN /\ launchIdx' = [launchIdx EXCEPT ![r] = @ + 1]
                /\ UNCHANGED <<pc, error>>
           ELSE /\ launchIdx' = [launchIdx EXCEPT ![r] = 0]
                /\ IF ok THEN Goto(r, "newPage") /\ UNCHANGED error
                         ELSE Throw(r, LaunchFailedError)
    /\ UNCHANGED <<diagFailed, fnCall, apiVars, httpVars, timeVars,
                   navigationSuccess, url,
                   attempt, selIdx,
                   buttons, btnIdx, detVars, result, closeVars, clickVars,
                   metricVars>>

\* mutant of LaunchAttempt: the handle is kept in a variable of the module,
\* shared by all invocations, instead of a local of the invocation
LaunchAttempt_SharedBrowser(r) ==
    /\ pc[r] = "launch"
    /\ driverUsed' = [driverUsed EXCEPT ![r] = TRUE]
    /\ \E ok \in BOOLEAN :
        IF ok
        THEN /\ browser' = [q \in Requests |-> Some(nextHandle)]
             /\ launched' = [launched EXCEPT ![r] = @ \cup {nextHandle}]
             /\ openHandles' = openHandles \cup {nextHandle}
             /\ nextHandle' = nextHandle + 1
             /\ launchIdx' = [launchIdx EXCEPT ![r] = 0]
             /\ launchLog' = [launchLog EXCEPT ![r] = <<>>]
             /\ Goto(r, "newPage")
             /\ UNCHANGED error
        ELSE IF launchIdx[r] < Len(LaunchChain)
        THEN /\ launchIdx' = [launchIdx EXCEPT ![r] = @ + 1]
             /\ launchLog' = [launchLog EXCEPT ![r] =
                                  Append(@, LaunchChain[launchIdx[r]])]
             /\ UNCHANGED <<pc, browser, handleVars, openHandles, error>>
        ELSE /\ launchIdx' = [launchIdx EXCEPT ![r] = 0]
             /\ launchLog' = [launchLog EXCEPT ![r] =
                                  Append(@, LaunchChain[launchIdx[r]])]
             /\ Throw(r, LaunchFailedError)
             /\ UNCHANGED <<browser, handleVars, openHandles>>
    /\ UNCHANGED <<diagFailed, fnCall, apiVars, httpVars, timeVars,
                   navigationSuccess, url,
                   attempt, selIdx,
                   buttons, btnIdx, detVars, result, closeVars, clickVars,
                   metricVars>>

\* lines 108-202: puppeteer.launch of configuration launchIdx settles.
\* launchLog lists the configurations the running call of launchBrowser has
\* failed with; it is kept when launchBrowser throws and dropped with the
\* call's frame when launchBrowser returns a browser.
LaunchAttempt(r) ==
    /\ pc[r] = "launch"
    /\ driverUsed' = [driverUsed EXCEPT ![r] = TRUE]
    /\ \E ok \in BOOLEAN :
        IF ok
        THEN \* return await puppeteer.launch(...) / return browser; then
             \* browser = ...; browser.newPage() is called
             /\ browser' = [browser EXCEPT ![r] = Some(nextHandle)]
             /\ launched' = [launched EXCEPT ![r] = @ \cup {nextHandle}]
             /\ openHandles' = openHandles \cup {nextHandle}
             /\ nextHandle' = nextHandle + 1
             /\ launchIdx' = [launchIdx EXCEPT ![r] = 0]
             /\ launchLog' = [launchLog EXCEPT ![r] = <<>>]
             /\ Goto(r, "newPage")
             /\ UNCHANGED error
        ELSE IF launchIdx[r] < Len(LaunchChain)
        THEN \* catch, continue: the next configuration is launched
             /\ launchIdx' = [launchIdx EXCEPT ![r] = @ + 1]
             /\ launchLog' = [launchLog EXCEPT ![r] =
                                  Append(@, LaunchChain[launchIdx[r]])]
             /\ UNCHANGED <<pc, browser, handleVars, openHandles, error>>
        ELSE \* all attempts failed
             /\ launchIdx' = [launchIdx EXCEPT ![r] = 0]
             /\ launchLog' = [launchLog EXCEPT ![r] =
                                  Append(@, LaunchChain[launchIdx[r]])]
             /\ Throw(r, LaunchFailedError)
             /\ UNCHANGED <<browser, handleVars, openHandles>>
    /\ UNCHANGED <<diagFailed, fnCall, apiVars, httpVars, timeVars,
                   navigationSuccess, url,
                   attempt, selIdx,
                   buttons, btnIdx, detVars, result, closeVars, clickVars,
                   metricVars>>

\* line 345: browser.newPage() settles
NewPage(r) ==
    /\ pc[r] = "newPage"
    /\ driverUsed' = [driverUsed EXCEPT ![r] = TRUE]
    /\ \E ok \in BOOLEAN :
        IF ok THEN Goto(r, "setUserAgent") /\ UNCHANGED error
              ELSE Throw(r, DriverError)
    /\ UNCHANGED <<diagFailed, fnCall, apiVars, openHandles, httpVars,
                   timeVars,
                   navigationSuccess,
                   launchLog, url, browser, loopVars, detVars, result,
                   handleVars, closeVars, clickVars, metricVars>>

\* lines 348-350: page.setUserAgent settles
SetUserAgent(r) ==
    /\ pc[r] = "setUserAgent"
    /\ \E ok \in BOOLEAN :
        IF ok THEN Goto(r, "setViewport") /\ UNCHANGED error
              ELSE Throw(r, DriverError)
    /\ UNCHANGED <<diagFailed, fnCall, apiVars, openHandles, httpVars,
                   timeVars,
                   navigationSuccess,
                   launchLog, url, browser, loopVars, detVars, result,
                   driverUsed, handleVars, closeVars, clickVars, metricVars>>

\* line 351: page.setViewport settles
SetViewport(r) ==
    /\ pc[r] = "setViewport"
    /\ \E ok \in BOOLEAN :
        IF ok THEN Goto(r, "setExtraHTTPHeaders") /\ UNCHANGED error
              ELSE Throw(r, DriverError)
    /\ UNCHANGED <<diagFailed, fnCall, apiVars, openHandles, httpVars,
                   timeVars,
                   navigationSuccess,
                   launchLog, url, browser, loopVars, detVars, result,
                   driverUsed, handleVars, closeVars, clickVars, metricVars>>

\* lines 354-366: page.setExtraHTTPHeaders settles; the navigation loop starts
SetExtraHTTPHeaders(r) ==
    /\ pc[r] = "setExtraHTTPHeaders"
    /\ \E ok \in BOOLEAN :
        IF ok THEN /\ Goto(r, "goto")
                   /\ attempt' = [attempt EXCEPT ![r] = 1]
                   /\ navigationSuccess' =
                          [navigationSuccess EXCEPT ![r] = Some(FALSE)]
                   /\ UNCHANGED error
              ELSE /\ Throw(r, DriverError)
                   /\ UNCHANGED <<attempt, navigationSuccess>>
    /\ UNCHANGED <<diagFailed, fnCall, apiVars, openHandles, httpVars,
                   timeVars,
                   launchLog, url,
                   browser,
                   launchIdx, selIdx, buttons, btnIdx, detVars, result,
                   driverUsed, handleVars, closeVars, clickVars, metricVars>>

\* mutant of Navigate: a failed attempt is not retried
Navigate_NoRetry(r) ==
    /\ pc[r] = "goto"
    /\ \E ok \in BOOLEAN :
        IF ok
        THEN /\ navigationSuccess' = [navigationSuccess EXCEPT ![r] = Some(TRUE)]
             /\ Goto(r, "settle")
             /\ attempt' = [attempt EXCEPT ![r] = 0]
             /\ UNCHANGED error
        ELSE /\ Throw(r, DriverError)
             /\ attempt' = [attempt EXCEPT ![r] = 0]
             /\ UNCHANGED navigationSuccess
    /\ UNCHANGED <<diagFailed, fnCall, apiVars, openHandles, httpVars,
                   timeVars,
                   launchLog, url,
                   browser,
                   launchIdx, selIdx, buttons, btnIdx, detVars, result,
                   driverUsed, handleVars, closeVars, clickVars, metricVars>>

\* mutant of Navigate: the third failure leaves the loop instead of rethrowing
\* navError, so that the check of navigationSuccess after the loop throws
Navigate_Wrapped(r) ==
    /\ pc[r] = "goto"
    /\ \E ok \in BOOLEAN :
        IF ok
        THEN /\ navigationSuccess' = [navigationSuccess EXCEPT ![r] = Some(TRUE)]
             /\ Goto(r, "settle")
             /\ attempt' = [attempt EXCEPT ![r] = 0]
             /\ UNCHANGED error
        ELSE IF attempt[r] = NavAttempts
        THEN /\ Throw(r, NavigationFailedError(url[r]))
             /\ attempt' = [attempt EXCEPT ![r] = 0]
             /\ UNCHANGED navigationSuccess
        ELSE /\ Goto(r, "navDelay")
             /\ UNCHANGED <<attempt, error, navigationSuccess>>
    /\ UNCHANGED <<diagFailed, fnCall, apiVars, openHandles, httpVars,
                   timeVars,
                   launchLog, url,
                   browser,
                   launchIdx, selIdx, buttons, btnIdx, detVars, result,
                   driverUsed, handleVars, closeVars, clickVars, metricVars>>

\* lines 364-392: page.goto of the current attempt settles.  The loop is left
\* by the break of line 371 or by the throw of line 375, so the throw of
\* NavigationFailedError after the loop (lines 382-389) is never reached.
Navigate(r) ==
    /\ pc[r] = "goto"
    /\ \E ok \in BOOLEAN :
        IF ok
        THEN \* navigationSuccess = true; break; the settle timer is started
             /\ navigationSuccess' = [navigationSuccess EXCEPT ![r] = Some(TRUE)]
             /\ Goto(r, "settle")
             /\ attempt' = [attempt EXCEPT ![r] = 0]
             /\ UNCHANGED error
        ELSE IF attempt[r] = NavAttempts
        THEN \* if (attempt === 3) throw navError
             /\ Throw(r, DriverError)
             /\ attempt' = [attempt EXCEPT ![r] = 0]
             /\ UNCHANGED navigationSuccess
        ELSE \* the 2 s timer is started
             /\ Goto(r, "navDelay")
             /\ UNCHANGED <<attempt, error, navigationSuccess>>
    /\ UNCHANGED <<diagFailed, fnCall, apiVars, openHandles, httpVars,
                   timeVars,
                   launchLog, url,
                   browser,
                   launchIdx, selIdx, buttons, btnIdx, detVars, result,
                   driverUsed, handleVars, closeVars, clickVars, metricVars>>

\* mutant of NavDelay: the loop counter is not advanced
NavDelay_NoCount(r) ==
    /\ pc[r] = "navDelay"
    /\ UNCHANGED attempt
    /\ Goto(r, "goto")
    /\ UNCHANGED <<diagFailed, fnCall, apiVars, openHandles, httpVars,
                   timeVars,
                   navigationSuccess,
                   launchLog, url, browser, launchIdx, selIdx, buttons, btnIdx,
                   detVars, outVars, driverUsed, handleVars, closeVars,
                   clickVars, metricVars>>

\* line 378: the delay between two navigation attempts ends
NavDelay(r) ==
    /\ pc[r] = "navDelay"
    /\ attempt' = [attempt EXCEPT ![r] = @ + 1]
    /\ Goto(r, "goto")
    /\ UNCHANGED <<diagFailed, fnCall, apiVars, openHandles, httpVars,
                   timeVars,
                   navigationSuccess,
                   launchLog, url, browser, launchIdx, selIdx, buttons, btnIdx,
                   detVars, outVars, driverUsed, handleVars, closeVars,
                   clickVars, metricVars>>

\* lines 392-395: the settle delay ends; checkIfAlreadyConfirmed is called
Settle(r) ==
    /\ pc[r] = "settle"
    /\ checkSite' = [checkSite EXCEPT ![r] = "pre"]
    /\ Goto(r, "check_wait")
    /\ UNCHANGED <<diagFailed, fnCall, apiVars, openHandles, httpVars,
                   timeVars,
                   navigationSuccess,
                   launchLog, url, browser, loopVars, alreadyConfirmed,
                   isConfirmed, verifyChecks, outVars, driverUsed, handleVars,
                   closeVars, clickVars, metricVars>>

(***************************************************************************)
(* checkIfAlreadyConfirmed, called before the click and in the             *)
(* verification loop                                                       *)
(***************************************************************************)
\* mutant of CheckReturn: the result of the pre-click detection is recorded but
\* the activation is started whatever it is
CheckReturn_ClickAnyway(r, v) ==
    IF checkSite[r] = "pre"
    THEN /\ alreadyConfirmed' = [alreadyConfirmed EXCEPT ![r] = Some(v)]
         /\ Goto(r, "click_wait")
         /\ checkSite' = [checkSite EXCEPT ![r] = "none"]
         /\ UNCHANGED <<isConfirmed, attempt, verifyChecks, responseTime>>
    ELSE /\ isConfirmed' = [isConfirmed EXCEPT ![r] = v]
         /\ verifyChecks' = [verifyChecks EXCEPT ![r] = @ + 1]
         /\ checkSite' = [checkSite EXCEPT ![r] = "none"]
         /\ IF v \/ attempt[r] = VerifyAttempts
            THEN /\ Goto(r, "close")
                 /\ attempt' = [attempt EXCEPT ![r] = 0]
                 /\ SetResponseTime(r)
            ELSE /\ Goto(r, "verifyDelay")
                 /\ UNCHANGED <<attempt, responseTime>>
         /\ UNCHANGED alreadyConfirmed

\* checkIfAlreadyConfirmed returns v to its call site: lines 395-413 before the
\* click, lines 421-430 in the verification loop
CheckReturn(r, v) ==
    IF checkSite[r] = "pre"
    THEN /\ alreadyConfirmed' = [alreadyConfirmed EXCEPT ![r] = Some(v)]
         /\ Goto(r, IF v THEN "closeConfirmed" ELSE "click_wait")
         /\ checkSite' = [checkSite EXCEPT ![r] = "none"]
         /\ IF v THEN SetResponseTime(r) ELSE UNCHANGED responseTime
         /\ UNCHANGED <<isConfirmed, attempt, verifyChecks>>
    ELSE /\ isConfirmed' = [isConfirmed EXCEPT ![r] = v]
         /\ verifyChecks' = [verifyChecks EXCEPT ![r] = @ + 1]
         /\ checkSite' = [checkSite EXCEPT ![r] = "none"]
         /\ IF v \/ attempt[r] = VerifyAttempts
            THEN /\ Goto(r, "close")
                 /\ attempt' = [attempt EXCEPT ![r] = 0]
                 /\ SetResponseTime(r)
            ELSE /\ Goto(r, "verifyDelay")
                 /\ UNCHANGED <<attempt, responseTime>>
         /\ UNCHANGED alreadyConfirmed

\* line 210: page.waitForSelector('body') settles
CheckWait(r) ==
    /\ pc[r] = "check_wait"
    /\ \E ok \in BOOLEAN :
        IF ok THEN /\ Goto(r, "check_eval")
                   /\ UNCHANGED <<detVars, attempt, responseTime>>
              ELSE CheckReturn(r, FALSE)
    /\ UNCHANGED <<diagFailed, fnCall, apiVars, openHandles, httpVars, now,
                   operationStart,
                   navigationSuccess, launchLog, url, browser, launchIdx,
                   selIdx, buttons, btnIdx, outVars, driverUsed, handleVars,
                   closeVars, clickVars, metricVars>>

\* lines 221-239: page.evaluate settles with the lower-cased text of the page
CheckEval(r) ==
    /\ pc[r] = "check_eval"
    /\ \/ \E text \in PageTexts : CheckReturn(r, isConfirmedText(text))
       \/ CheckReturn(r, FALSE)
    /\ UNCHANGED <<diagFailed, fnCall, apiVars, openHandles, httpVars, now,
                   operationStart,
                   navigationSuccess, launchLog, url, browser, launchIdx,
                   selIdx, buttons, btnIdx, outVars, driverUsed, handleVars,
                   closeVars, clickVars, metricVars>>

\* lines 396-410: browser.close() of the already-confirmed path settles
CloseConfirmed(r) ==
    /\ pc[r] = "closeConfirmed"
    /\ closeCalls' = [closeCalls EXCEPT ![r] = @ + 1]
    /\ openHandles' = openHandles \ browser[r]
    /\ \E ok \in BOOLEAN :
        /\ closeFailed' = [closeFailed EXCEPT ![r] = @ \/ ~ok]
        /\ IF ok
           THEN /\ trackEmailForwardingEnd(r, TRUE)
                /\ Return(r, AlreadyConfirmedResult(url[r]))
                /\ UNCHANGED error
           ELSE /\ Throw(r, DriverError)
                /\ UNCHANGED <<result, metricVars>>
    /\ UNCHANGED <<diagFailed, fnCall, apiVars, httpVars, timeVars,
                   navigationSuccess,
                   launchLog,
                   url,
                   browser, loopVars, detVars, driverUsed, handleVars,
                   clickVars>>

(***************************************************************************)
(* clickConfirmationButton                                                 *)
(***************************************************************************)
\* the query of selector i is issued: page.$$ for the :contains selector
\* (line 264), page.$ for the others (line 274)
QueryPc(i) == IF isContainsSelector(i) THEN "sel_queryAll" ELSE "sel_query"

\* lines 260, 285-309: the attempt with the current selector is over without a
\* click; the loop goes on, and after the last selector page.$$eval is called
NextSelector(r) ==
    /\ buttons' = [buttons EXCEPT ![r] = 0]
    /\ btnIdx' = [btnIdx EXCEPT ![r] = 0]
    /\ IF selIdx[r] < Len(selectors)
       THEN /\ selIdx' = [selIdx EXCEPT ![r] = @ + 1]
            /\ Goto(r, QueryPc(selIdx[r] + 1))
       ELSE /\ selIdx' = [selIdx EXCEPT ![r] = 0]
            /\ Goto(r, "diag")

\* mutant of ClickReturn: a successful click does not end the loop over the
\* selectors
ClickReturn_KeepsTrying(r) == NextSelector(r)

\* lines 270, 281, 413-416: clickConfirmationButton returns after a click; the
\* 5 s timer is started
ClickReturn(r) ==
    /\ buttons' = [buttons EXCEPT ![r] = 0]
    /\ btnIdx' = [btnIdx EXCEPT ![r] = 0]
    /\ selIdx' = [selIdx EXCEPT ![r] = 0]
    /\ Goto(r, "postClickWait")

\* line 257: page.waitForSelector('body').catch(() => {}) settles
ClickWait(r) ==
    /\ pc[r] = "click_wait"
    /\ Goto(r, "click_sleep")
    /\ UNCHANGED <<diagFailed, fnCall, apiVars, openHandles, httpVars,
                   timeVars,
                   navigationSuccess,
                   launchLog, url, browser, loopVars, detVars, outVars,
                   driverUsed, handleVars, closeVars, clickVars, metricVars>>

\* lines 258-260: the 2 s delay ends; the loop over the selectors starts
ClickSleep(r) ==
    /\ pc[r] = "click_sleep"
    /\ selIdx' = [selIdx EXCEPT ![r] = 1]
    /\ Goto(r, QueryPc(1))
    /\ UNCHANGED <<diagFailed, fnCall, apiVars, openHandles, httpVars,
                   timeVars,
                   navigationSuccess,
                   launchLog, url, browser, launchIdx, attempt, buttons,
                   btnIdx, detVars, outVars, driverUsed, handleVars, closeVars,
                   clickVars, metricVars>>

\* lines 274-275: page.$(selector) settles: an element, null, or an exception
QuerySelector(r) ==
    /\ pc[r] = "sel_query"
    /\ \E found \in {"element", "null", "throw"} :
        IF found = "element"
        THEN Goto(r, "sel_visible") /\ UNCHANGED <<selIdx, buttons, btnIdx>>
        ELSE NextSelector(r)
    /\ UNCHANGED <<diagFailed, fnCall, apiVars, openHandles, httpVars,
                   timeVars,
                   navigationSuccess,
                   launchLog, url, browser, launchIdx, attempt, detVars,
                   outVars, driverUsed, handleVars, closeVars, clickVars,
                   metricVars>>

\* lines 277-278: element.isVisible?.() ?? true settles
IsVisible(r) ==
    /\ pc[r] = "sel_visible"
    /\ \E visible \in {"true", "false", "throw"} :
        IF visible = "true"
        THEN Goto(r, "sel_click") /\ UNCHANGED <<selIdx, buttons, btnIdx>>
        ELSE NextSelector(r)
    /\ UNCHANGED <<diagFailed, fnCall, apiVars, openHandles, httpVars,
                   timeVars,
                   navigationSuccess,
                   launchLog, url, browser, launchIdx, attempt, detVars,
                   outVars, driverUsed, handleVars, closeVars, clickVars,
                   metricVars>>

\* lines 279-281: element.click() settles; the element is one for which
\* isVisible has just returned true
ElementClick(r) ==
    /\ pc[r] = "sel_click"
    /\ clickTried' = [clickTried EXCEPT ![r] = TRUE]
    /\ \E ok \in BOOLEAN :
        /\ clicks' = [clicks EXCEPT ![r] = IF ok THEN @ + 1 ELSE @]
        /\ IF ok THEN ClickReturn(r) ELSE NextSelector(r)
    /\ UNCHANGED <<diagFailed, fnCall, clickedHidden, apiVars, openHandles,
                   httpVars,
                   timeVars, navigationSuccess,
                   launchLog, url, browser, launchIdx, attempt, detVars,
                   outVars, driverUsed, handleVars, closeVars, metricVars>>

\* lines 264-265: page.$$ settles with the button-like elements of the page
QueryAll(r) ==
    /\ pc[r] = "sel_queryAll"
    /\ \/ \E n \in 1..MaxButtons :
            /\ buttons' = [buttons EXCEPT ![r] = n]
            /\ btnIdx' = [btnIdx EXCEPT ![r] = 1]
            /\ Goto(r, "btn_text")
            /\ UNCHANGED selIdx
       \/ NextSelector(r)       \* no element, or an exception
    /\ UNCHANGED <<diagFailed, fnCall, apiVars, openHandles, httpVars,
                   timeVars,
                   navigationSuccess,
                   launchLog, url, browser, launchIdx, attempt, detVars,
                   outVars, driverUsed, handleVars, closeVars, clickVars,
                   metricVars>>

\* lines 266-267: button.evaluate settles with the text of the current button
ButtonText(r) ==
    /\ pc[r] = "btn_text"
    /\ \/ \E text \in ButtonTexts :
            IF buttonMatches(text)
            THEN Goto(r, "btn_click") /\ UNCHANGED <<selIdx, buttons, btnIdx>>
            ELSE IF btnIdx[r] < buttons[r]
            THEN /\ btnIdx' = [btnIdx EXCEPT ![r] = @ + 1]
                 /\ UNCHANGED <<pc, selIdx, buttons>>
            ELSE NextSelector(r)
       \/ NextSelector(r)       \* an exception
    /\ UNCHANGED <<diagFailed, fnCall, apiVars, openHandles, httpVars,
                   timeVars,
                   navigationSuccess,
                   launchLog, url, browser, launchIdx, attempt, detVars,
                   outVars, driverUsed, handleVars, closeVars, clickVars,
                   metricVars>>

\* lines 268-270: button.click() settles; the text scan has made no
\* visibility test, so the button is visible or not, as the page has it
ButtonClick(r) ==
    /\ pc[r] = "btn_click"
    /\ clickTried' = [clickTried EXCEPT ![r] = TRUE]
    /\ \E ok, visible \in BOOLEAN :
        /\ clicks' = [clicks EXCEPT ![r] = IF ok THEN @ + 1 ELSE @]
        /\ clickedHidden' = [clickedHidden EXCEPT ![r] = @ \/ (ok /\ ~visible)]
        /\ IF ok THEN ClickReturn(r) ELSE NextSelector(r)
    /\ UNCHANGED <<diagFailed, fnCall, apiVars, openHandles, httpVars,
                   timeVars,
                   navigationSuccess,
                   launchLog, url, browser, launchIdx, attempt, detVars,
                   outVars, driverUsed, handleVars, closeVars, metricVars>>

\* mutant of Diagnose: a failure of page.$$eval is not caught
Diagnose_Unguarded(r) ==
    /\ pc[r] = "diag"
    /\ \E ok \in BOOLEAN :
        /\ diagFailed' = [diagFailed EXCEPT ![r] = ~ok]
        /\ Throw(r, IF ok THEN ButtonNotFoundError ELSE DriverError)
    /\ UNCHANGED <<fnCall, apiVars, openHandles, httpVars, timeVars,
                   navigationSuccess,
                   launchLog, url, browser, loopVars, detVars, result,
                   driverUsed, handleVars, closeVars, clickVars, metricVars>>

\* lines 294-314: page.$$eval of the diagnostic inventory settles, either way;
\* clickConfirmationButton throws
Diagnose(r) ==
    /\ pc[r] = "diag"
    /\ \E ok \in BOOLEAN : diagFailed' = [diagFailed EXCEPT ![r] = ~ok]
    /\ Throw(r, ButtonNotFoundError)
    /\ UNCHANGED <<fnCall, apiVars, openHandles, httpVars, timeVars,
                   navigationSuccess,
                   launchLog, url, browser, loopVars, detVars, result,
                   driverUsed, handleVars, closeVars, clickVars, metricVars>>

(***************************************************************************)
(* acceptEmailForwardingRequest, after the click                           *)
(***************************************************************************)
\* lines 416-421: the 5 s delay ends; the verification loop starts
PostClickWait(r) ==
    /\ pc[r] = "postClickWait"
    /\ attempt' = [attempt EXCEPT ![r] = 1]
    /\ checkSite' = [checkSite EXCEPT ![r] = "post"]
    /\ Goto(r, "check_wait")
    /\ UNCHANGED <<diagFailed, fnCall, apiVars, openHandles, httpVars,
                   timeVars,
                   navigationSuccess,
                   launchLog, url, browser, launchIdx, selIdx, buttons, btnIdx,
                   alreadyConfirmed, isConfirmed, verifyChecks, outVars,
                   driverUsed, handleVars, closeVars, clickVars, metricVars>>

\* line 425: the delay between two verification checks ends
VerifyDelay(r) ==
    /\ pc[r] = "verifyDelay"
    /\ attempt' = [attempt EXCEPT ![r] = @ + 1]
    /\ checkSite' = [checkSite EXCEPT ![r] = "post"]
    /\ Goto(r, "check_wait")
    /\ UNCHANGED <<diagFailed, fnCall, apiVars, openHandles, httpVars,
                   timeVars,
                   navigationSuccess,
                   launchLog, url, browser, launchIdx, selIdx, buttons, btnIdx,
                   alreadyConfirmed, isConfirmed, verifyChecks, outVars,
                   driverUsed, handleVars, closeVars, clickVars, metricVars>>

\* mutant of Close: the success result is returned whatever the verification
\* found
Close_AlwaysSuccess(r) ==
    /\ pc[r] = "close"
    /\ closeCalls' = [closeCalls EXCEPT ![r] = @ + 1]
    /\ openHandles' = openHandles \ browser[r]
    /\ \E ok \in BOOLEAN :
        /\ closeFailed' = [closeFailed EXCEPT ![r] = @ \/ ~ok]
        /\ IF ok
           THEN /\ trackEmailForwardingEnd(r, isConfirmed[r])
                /\ Return(r, ConfirmedResult(url[r])) /\ UNCHANGED error
           ELSE /\ Throw(r, DriverError)
                /\ UNCHANGED <<result, metricVars>>
    /\ UNCHANGED <<diagFailed, fnCall, apiVars, httpVars, timeVars,
                   navigationSuccess,
                   launchLog,
                   url,
                   browser, loopVars, detVars, driverUsed, handleVars,
                   clickVars>>

\* mutant of Close: trackEmailForwardingEnd is called before browser.close()
Close_TrackFirst(r) ==
    /\ pc[r] = "close"
    /\ closeCalls' = [closeCalls EXCEPT ![r] = @ + 1]
    /\ openHandles' = openHandles \ browser[r]
    /\ \E ok \in BOOLEAN :
        /\ closeFailed' = [closeFailed EXCEPT ![r] = @ \/ ~ok]
        /\ IF ok
           THEN /\ trackEmailForwardingEnd(r, isConfirmed[r])
                /\ IF isConfirmed[r]
                   THEN Return(r, ConfirmedResult(url[r])) /\ UNCHANGED error
                   ELSE Throw(r, ConfirmationFailedError(url[r])) /\ UNCHANGED result
           ELSE /\ trackEmailForwardingEnd(r, isConfirmed[r])
                /\ Throw(r, DriverError)
                /\ UNCHANGED result
    /\ UNCHANGED <<diagFailed, fnCall, apiVars, httpVars, timeVars,
                   navigationSuccess,
                   launchLog,
                   url,
                   browser, loopVars, detVars, driverUsed, handleVars,
                   clickVars>>

\* lines 428-449: browser.close() after the verification settles
Close(r) ==
    /\ pc[r] = "close"
    /\ closeCalls' = [closeCalls EXCEPT ![r] = @ + 1]
    /\ openHandles' = openHandles \ browser[r]
    /\ \E ok \in BOOLEAN :
        /\ closeFailed' = [closeFailed EXCEPT ![r] = @ \/ ~ok]
        /\ IF ok
           THEN /\ trackEmailForwardingEnd(r, isConfirmed[r])
                /\ IF isConfirmed[r]
                   THEN Return(r, ConfirmedResult(url[r])) /\ UNCHANGED error
                   ELSE Throw(r, ConfirmationFailedError(url[r])) /\ UNCHANGED result
           ELSE /\ Throw(r, DriverError)
                /\ UNCHANGED <<result, metricVars>>
    /\ UNCHANGED <<diagFailed, fnCall, apiVars, httpVars, timeVars,
                   navigationSuccess,
                   launchLog,
                   url,
                   browser, loopVars, detVars, driverUsed, handleVars,
                   clickVars>>

\* mutant of Catch: the catch clause returns without closing the browser
Catch_NoClose(r) ==
    /\ pc[r] = "catch"
    /\ SetResponseTime(r)
    /\ trackEmailForwardingEnd(r, FALSE)
    /\ \E e \in error[r] : Return(r, FailureResult(e, url[r]))
    /\ UNCHANGED <<diagFailed, fnCall, apiVars, openHandles, httpVars, now,
                   operationStart,
                   navigationSuccess, launchLog, url, browser, loopVars,
                   detVars, error, driverUsed, handleVars, closeVars,
                   clickVars>>

\* mutant of Catch: the operands of the subtraction of line 452 are swapped
Catch_SwappedTime(r) ==
    /\ pc[r] = "catch"
    /\ responseTime' = [responseTime EXCEPT ![r] = Some(operationStart[r] - now)]
    /\ IF browser[r] # None
       THEN /\ Goto(r, "catchClose")
            /\ UNCHANGED <<result, metricVars>>
       ELSE /\ trackEmailForwardingEnd(r, FALSE)
            /\ \E e \in error[r] : Return(r, FailureResult(e, url[r]))
    /\ UNCHANGED <<diagFailed, fnCall, apiVars, openHandles, httpVars, now,
                   operationStart,
                   navigationSuccess, launchLog, url, browser, loopVars,
                   detVars, error, driverUsed, handleVars, closeVars,
                   clickVars>>

\* lines 451-457, 467-484: the catch clause; without a browser it returns at once
Catch(r) ==
    /\ pc[r] = "catch"
    /\ SetResponseTime(r)
    /\ IF browser[r] # None
       THEN /\ Goto(r, "catchClose")
            /\ UNCHANGED <<result, metricVars>>
       ELSE /\ trackEmailForwardingEnd(r, FALSE)
            /\ \E e \in error[r] : Return(r, FailureResult(e, url[r]))
    /\ UNCHANGED <<diagFailed, fnCall, apiVars, openHandles, httpVars, now,
                   operationStart,
                   navigationSuccess, launchLog, url, browser, loopVars,
                   detVars, error, driverUsed, handleVars, closeVars,
                   clickVars>>

\* mutant of CatchClose: browser.close() of the catch clause is not wrapped in
\* try/catch, its exception leaves acceptEmailForwardingRequest
CatchClose_Unguarded(r) ==
    /\ pc[r] = "catchClose"
    /\ closeCalls' = [closeCalls EXCEPT ![r] = @ + 1]
    /\ openHandles' = openHandles \ browser[r]
    /\ \E ok \in BOOLEAN :
        /\ closeFailed' = [closeFailed EXCEPT ![r] = @ \/ ~ok]
        /\ IF ok
           THEN /\ trackEmailForwardingEnd(r, FALSE)
                /\ \E e \in error[r] : Return(r, FailureResult(e, url[r]))
           ELSE /\ Goto(r, "raised")
                /\ UNCHANGED <<result, metricVars>>
    /\ UNCHANGED <<diagFailed, fnCall, apiVars, httpVars, timeVars,
                   navigationSuccess,
                   launchLog,
                   url,
                   browser, loopVars, detVars, error, driverUsed, handleVars,
                   clickVars>>

\* lines 457-484: browser.close() of the catch clause settles, either way
CatchClose(r) ==
    /\ pc[r] = "catchClose"
    /\ closeCalls' = [closeCalls EXCEPT ![r] = @ + 1]
    /\ openHandles' = openHandles \ browser[r]
    /\ \E ok \in BOOLEAN : closeFailed' = [closeFailed EXCEPT ![r] = @ \/ ~ok]
    /\ trackEmailForwardingEnd(r, FALSE)
    /\ \E e \in error[r] : Return(r, FailureResult(e, url[r]))
    /\ UNCHANGED <<diagFailed, fnCall, apiVars, httpVars, timeVars,
                   navigationSuccess,
                   launchLog,
                   url,
                   browser, loopVars, detVars, error, driverUsed, handleVars,
                   clickVars>>

\* the steps of an invocation in flight
Step(r) ==
    \/ LaunchAttempt(r)
    \/ NewPage(r)
    \/ SetUserAgent(r)
    \/ SetViewport(r)
    \/ SetExtraHTTPHeaders(r)
    \/ Navigate(r)
    \/ NavDelay(r)
    \/ Settle(r)
    \/ CheckWait(r)
    \/ CheckEval(r)
    \/ CloseConfirmed(r)
    \/ ClickWait(r)
    \/ ClickSleep(r)
    \/ QuerySelector(r)
    \/ IsVisible(r)
    \/ ElementClick(r)
    \/ QueryAll(r)
    \/ ButtonText(r)
    \/ ButtonClick(r)
    \/ Diagnose(r)
    \/ PostClickWait(r)
    \/ VerifyDelay(r)
    \/ Close(r)
    \/ Catch(r)
    \/ CatchClose(r)

\* requests are accepted at any time and run interleaved at their awaits
Next == \E r \in Requests : Invoke(r) \/ Step(r)

Spec == Init /\ [][Next]_vars

\* a caller that awaits each invocation before it makes the next one
InFlight(r) == pc[r] \notin {"idle", "done", "raised"}

\* every driver operation an invocation awaits settles, one way or the other,
\* and every timer it awaits fires
SpecLive == Init /\ [][Next]_vars /\ \A r \in Requests : WF_vars(Step(r))

NextSeq ==
    \E r \in Requests :
        \/ (\A q \in Requests : ~InFlight(q)) /\ Invoke(r)
        \/ Step(r)

SpecSeq == Init /\ [][NextSeq]_vars

(***************************************************************************)
(* The HTTP layer around a running invocation                              *)
(***************************************************************************)
\* mutant of Timeout: the timer also abandons the pipeline of the request
Timeout_Cancels(r) ==
    /\ InFlight(r)
    /\ httpStatus[r] = None
    /\ httpStatus' = [httpStatus EXCEPT ![r] = Some(408)]
    /\ Return(r, FailureResult(DriverError, url[r]))
    /\ UNCHANGED <<diagFailed, fnCall, apiVars, openHandles, url, browser,
                   loopVars,
                   detVars,
                   error,
                   driverUsed, handleVars, closeVars, clickVars, metricVars,
                   launchLog, navigationSuccess, timeVars, clientGone>>

\* the timer of requestTimeout fires while the handler awaits
\* acceptEmailForwardingRequest: no response was sent yet, 408 is sent
Timeout(r) ==
    /\ InFlight(r)
    /\ httpStatus[r] = None
    /\ httpStatus' = [httpStatus EXCEPT ![r] = Some(408)]
    /\ UNCHANGED <<diagFailed, fnCall, apiVars, openHandles, pc, url, browser,
                   loopVars,
                   detVars,
                   outVars,
                   driverUsed, handleVars, closeVars, clickVars, metricVars,
                   launchLog, navigationSuccess, timeVars, clientGone>>

\* the caller closes the connection while the handler awaits
\* acceptEmailForwardingRequest; the handler registers no listener for it
Disconnect(r) ==
    /\ InFlight(r)
    /\ ~clientGone[r]
    /\ clientGone' = [clientGone EXCEPT ![r] = TRUE]
    /\ UNCHANGED <<diagFailed, fnCall, apiVars, openHandles, pc, url, browser,
                   loopVars,
                   detVars,
                   outVars,
                   driverUsed, handleVars, closeVars, clickVars, metricVars,
                   launchLog, navigationSuccess, timeVars, httpStatus>>

\* one invocation with the request timer and the caller around it
NextHttp ==
    \E r \in Requests :
        \/ (\A q \in Requests : pc[q] = "idle") /\ Invoke(r)
        \/ Step(r)
        \/ Timeout(r)
        \/ Disconnect(r)

\* every driver call and every timer the invocation awaits settles
SpecHttp ==
    Init /\ [][NextHttp]_vars /\ \A r \in Requests : WF_vars(Step(r))

(***************************************************************************)
(* The Express application around acceptEmailForwardingRequest             *)
(***************************************************************************)
\* a request arrives and runs through the middleware of app.use, in the order
\* of their registration: securityMiddleware, rateLimiter, speedLimiter,
\* requestId, requestLogger, requestTimeout, bodyParser, metricsMiddleware.
\* apiKeyAuth is not registered.  A GET route answers in the same step; the
\* body of a POST is parsed first.
Receive(r) ==
    /\ hstage[r] = "none"
    /\ pc[r] = "idle"
    /\ \E path \in Paths, key \in KeyInputs, sid \in IdInputs, b \in BodyInputs,
          lim \in BOOLEAN, gen \in GeneratedIds :
        IF lim
        THEN \* the handler of rateLimiter answers before requestId has run
             /\ req' = [req EXCEPT ![r] =
                           [path |-> path, apiKey |-> key, sentId |-> sid,
                            requestId |-> sid, body |-> b, limited |-> TRUE]]
             /\ writes' = [writes EXCEPT ![r] =
                           Append(@, Write(429, "rateLimiter", sid, FALSE, TRUE))]
             /\ httpStatus' = [httpStatus EXCEPT ![r] = Some(429)]
             /\ hstage' = [hstage EXCEPT ![r] = "finished"]
        ELSE /\ req' = [req EXCEPT ![r] =
                           [path |-> path, apiKey |-> key, sentId |-> sid,
                            requestId |-> requestIdOf(sid, gen), body |-> b,
                            limited |-> FALSE]]
             /\ IF path = "/accept-forwarding"
                THEN /\ hstage' = [hstage EXCEPT ![r] = "parsing"]
                     /\ UNCHANGED <<writes, httpStatus>>
                ELSE \* /health, /metrics, /api-docs
                     /\ writes' = [writes EXCEPT ![r] =
                                   Append(@, Write(200, path, None,
                                                   path = "/health", TRUE))]
                     /\ httpStatus' = [httpStatus EXCEPT ![r] = Some(200)]
                     /\ hstage' = [hstage EXCEPT ![r] = "finished"]
    /\ UNCHANGED <<diagFailed, fnCall, pc, url, browser, loopVars, detVars,
                   outVars,
                   driverUsed,
                   handleVars, closeVars, clickVars, metricVars, launchLog,
                   navigationSuccess, timeVars, clientGone, openHandles>>

\* validateRequest(emailForwardingRequestSchema) rejects the parsed body
RejectBody(r) ==
    /\ hstage[r] = "parsing"
    /\ pc[r] = "idle"
    /\ ~schemaAccepts(req[r].body)
    /\ writes' = [writes EXCEPT ![r] =
                  Append(@, Write(400, "validateRequest", req[r].requestId,
                                  TRUE, TRUE))]
    /\ httpStatus' = [httpStatus EXCEPT ![r] = Some(400)]
    /\ hstage' = [hstage EXCEPT ![r] = "finished"]
    /\ UNCHANGED <<diagFailed, fnCall, pc, url, browser, loopVars, detVars,
                   outVars,
                   driverUsed,
                   handleVars, closeVars, clickVars, metricVars, launchLog,
                   navigationSuccess, timeVars, clientGone, openHandles, req>>

\* validateRequest passes the body on and the route handler calls
\* acceptEmailForwardingRequest(req.body) (part_000 lines 110-119)
Handle(r) ==
    /\ hstage[r] = "parsing"
    /\ schemaAccepts(req[r].body)
    /\ Invoke(r)
    /\ url'[r] \in req[r].body

\* the await of line 119 resumes with the result (lines 121-149).  A write on
\* a response whose headers were sent raises; raised in the try block it is
\* caught, the write of the catch block raises as well, and the rejection of
\* the handler is left to the unhandledRejection listener (process.exit).
Respond(r) ==
    /\ hstage[r] = "parsing"
    /\ pc[r] = "done"
    /\ \E out \in result[r] :
        LET statusCode == IF out.success THEN 200 ELSE 400 IN
        IF httpStatus[r] = None
        THEN /\ writes' = [writes EXCEPT ![r] =
                           Append(@, Write(statusCode, "handler",
                                           req[r].requestId, TRUE, TRUE))]
             /\ httpStatus' = [httpStatus EXCEPT ![r] = Some(statusCode)]
             /\ hstage' = [hstage EXCEPT ![r] = "finished"]
        ELSE /\ writes' = [writes EXCEPT ![r] =
                           @ \o <<Write(statusCode, "handler",
                                        req[r].requestId, TRUE, FALSE),
                                  Write(500, "handlerCatch",
                                        req[r].requestId, TRUE, FALSE)>>]
             /\ hstage' = [hstage EXCEPT ![r] = "crashed"]
             /\ UNCHANGED httpStatus
    /\ UNCHANGED <<diagFailed, fnCall, pc, url, browser, loopVars, detVars,
                   outVars,
                   driverUsed,
                   handleVars, closeVars, clickVars, metricVars, launchLog,
                   navigationSuccess, timeVars, clientGone, openHandles, req>>

\* one request at a time, from its arrival to its response
NextApi ==
    \E r \in Requests :
        \/ (\A q \in Requests : hstage[q] = "none") /\ Receive(r)
        \/ RejectBody(r)
        \/ Handle(r)
        \/ hstage[r] = "parsing" /\ Step(r)
        \/ hstage[r] = "parsing" /\ Timeout(r)
        \/ Respond(r)

SpecApi == Init /\ [][NextApi]_vars

(***************************************************************************)
(* The two functions called on their own, beside one invocation of the     *)
(* pipeline                                                                *)
(***************************************************************************)
\* everything but fnCall
serviceVars ==
    <<pc, url, browser, launchIdx, attempt, alreadyConfirmed, isConfirmed,
      checkSite, selIdx, buttons, btnIdx, error, result, driverUsed, launched,
      closeCalls, closeFailed, clickTried, clicks, clickedHidden, verifyChecks,
      ended, nextHandle, puppeteerBrowsersActive, launchLog, navigationSuccess,
      now, operationStart, responseTime, httpStatus, clientGone, openHandles,
      req, writes, hstage, diagFailed>>

InitFn == InitService /\ fnCall \in Calls

\* line 38: return urlPattern.test(url)
ValidateCall ==
    /\ fnCall.fn = "validateForwardingUrl" /\ fnCall.out = None
    /\ fnCall' = [fnCall EXCEPT !.out = Some(validateForwardingUrl(Argument(fnCall)))]
    /\ UNCHANGED serviceVars

\* lines 207-240: checkIfAlreadyConfirmed on a page with the text of the call
DetectorCall ==
    /\ fnCall.fn = "checkIfAlreadyConfirmed" /\ fnCall.out = None
    /\ \E waitOk, evalOk \in BOOLEAN :
        fnCall' = [fnCall EXCEPT
                     !.raised = ~(waitOk /\ evalOk),
                     !.out = Some(checkIfAlreadyConfirmed(waitOk, evalOk,
                                                          Argument(fnCall)))]
    /\ UNCHANGED serviceVars

NextFn == ValidateCall \/ DetectorCall \/ Invoke(1) \/ Step(1)

SpecFn == InitFn /\ [][NextFn]_vars

(***************************************************************************)
(* The clock                                                               *)
(***************************************************************************)
\* the clock readings of a run; more readings give no other orderings of the
\* three subtractions and the start
MaxClock == 3

\* time passes between two steps: Date.now() never decreases
Tick ==
    /\ now < MaxClock
    /\ now' = now + 1
    /\ UNCHANGED <<diagFailed, fnCall, apiVars, openHandles, httpVars, pc,
                   url, browser,
                   loopVars,
                   detVars,
                   outVars, driverUsed, handleVars, closeVars, clickVars,
                   metricVars, launchLog, navigationSuccess, operationStart,
                   responseTime>>

\* one invocation under a clock that advances between its steps
NextClock ==
    \/ Tick
    \/ \E r \in Requests :
          \/ (\A q \in Requests : pc[q] = "idle") /\ Invoke(r)
          \/ Step(r)

SpecClock == Init /\ [][NextClock]_vars

(***************************************************************************)
(* Properties                                                              *)
(***************************************************************************)
Done(r) == pc[r] = "done"

\* the invocation launched a browser
Launched(r) == launched[r] # {}

\* the verification loop ran all its checks and none saw a confirmation phrase
VerificationExhausted(r) ==
    clicks[r] >= 1 /\ verifyChecks[r] = VerifyAttempts /\ ~isConfirmed[r]

\* every selector was tried and no click succeeded
NoControlActivated(r) ==
    Done(r) /\ alreadyConfirmed[r] = Some(FALSE) /\ clicks[r] = 0

\* the outcome the pipeline had reached when the browser was closed
PrimaryOutcome(r) ==
    IF alreadyConfirmed[r] = Some(TRUE) THEN AlreadyConfirmedResult(url[r])
    ELSE IF isConfirmed[r] THEN ConfirmedResult(url[r])
    ELSE IF VerificationExhausted(r)
         THEN FailureResult(ConfirmationFailedError(url[r]), url[r])
    ELSE IF NoControlActivated(r) THEN FailureResult(ButtonNotFoundError, url[r])
    ELSE FailureResult(DriverError, url[r])

\* C1: in every invocation that launched a browser, whichever of the steps
\* newPage, page setup, navigation, detection, activation or verification
\* fails (or none), browser.close() has been invoked exactly once when the
\* result is returned.
C1_CloseExactlyOnce ==
    \A r \in Requests :
        (Done(r) /\ Launched(r) /\ ~closeFailed[r]) => closeCalls[r] = 1

\* C2: no browser handle leaks: when the result is returned, browser.close()
\* has been invoked at least once on the handle the invocation launched, also
\* when an intermediate driver step raised.
C2_NoHandleLeak ==
    \A r \in Requests :
        (Done(r) /\ Launched(r)) => (closeCalls[r] >= 1 /\ browser[r] = launched[r])

\* C2 witness: newPage, the page setup or the navigation raised after a
\* successful launch, and the browser was closed once.
C2_Witness ==
    \E r \in Requests :
        /\ Done(r) /\ Launched(r)
        /\ error[r] = Some(DriverError)
        /\ alreadyConfirmed[r] = None
        /\ closeCalls[r] = 1

C4_NeverRaises ==
    \A r \in Requests :
        /\ pc[r] # "raised"
        /\ Done(r) =>
             /\ Cardinality(result[r]) = 1
             /\ \A res \in result[r] :
                  /\ res.success \in BOOLEAN
                  /\ (error[r] # None) => (res.success = FALSE)

\* C4 witness: browser.close() itself raised in the catch clause after a
\* driver failure, and a failure result was returned.
C4_Witness ==
    \E r \in Requests :
        /\ Done(r) /\ closeFailed[r] /\ closeCalls[r] = 1
        /\ error[r] = Some(DriverError)
        /\ \E res \in result[r] : res.success = FALSE

\* C5: a raising browser.close() never changes the outcome: the result keeps
\* success=true when the pipeline had reached a successful outcome, and keeps
\* the primary failure message on a failure path.
C5_CloseFailureKeepsOutcome ==
    \A r \in Requests :
        (Done(r) /\ closeFailed[r]) =>
            \A res \in result[r] :
                /\ res.success = PrimaryOutcome(r).success
                /\ ~PrimaryOutcome(r).success => res.message = PrimaryOutcome(r).message

\* C6: when the pre-click detection finds a confirmation phrase, the result
\* is success=true, alreadyConfirmed=true, "Email forwarding already
\* confirmed", no click is performed and browser.close() is invoked exactly
\* once.
C6_AlreadyConfirmed ==
    \A r \in Requests :
        (Done(r) /\ alreadyConfirmed[r] = Some(TRUE)) =>
            /\ \A res \in result[r] :
                 /\ res.success = TRUE
                 /\ res.alreadyConfirmed = Some(TRUE)
                 /\ res.message = "Email forwarding already confirmed"
            /\ ~clickTried[r]
            /\ closeCalls[r] = 1

\* C7: two successive invocations for the same URL whose page shows a
\* confirmation phrase to the pre-click detection both times each return
\* alreadyConfirmed=true, and neither performs a click.
C7_IdempotentWhenConfirmed ==
    \A r, q \in Requests :
        (/\ r # q /\ Done(r) /\ Done(q) /\ url[r] = url[q]
         /\ alreadyConfirmed[r] = Some(TRUE) /\ alreadyConfirmed[q] = Some(TRUE)) =>
            /\ \A res \in result[r] \cup result[q] : res.alreadyConfirmed = Some(TRUE)
            /\ ~clickTried[r] /\ ~clickTried[q]

\* C8: when every selector strategy was tried and no control was activated,
\* the result is success=false with "No confirmation button found" and
\* browser.close() has been invoked.
C8_ButtonNotFound ==
    \A r \in Requests :
        NoControlActivated(r) =>
            /\ \A res \in result[r] :
                 /\ res.success = FALSE
                 /\ res.message = "No confirmation button found"
            /\ closeCalls[r] >= 1

\* C8 witness: a click was attempted and raised, no later strategy activated
\* a control, and the failure was returned after one close.
C8_Witness ==
    \E r \in Requests :
        /\ NoControlActivated(r) /\ clickTried[r]
        /\ closeCalls[r] = 1
        /\ \E res \in result[r] : res.message = "No confirmation button found"

\* C9: when a control was clicked and no verification check within the retry
\* budget saw a confirmation phrase, the result is success=false with
\* "Confirmation failed - page did not update as expected" and the browser
\* has been closed.
C9_ConfirmationFailed ==
    \A r \in Requests :
        (Done(r) /\ VerificationExhausted(r)) =>
            /\ \A res \in result[r] :
                 /\ res.success = FALSE
                 /\ res.message = "Confirmation failed - page did not update as expected"
            /\ closeCalls[r] >= 1

\* C10: the launch fallback is first-success-wins: a launch attempt that
\* raises is followed by the next configuration of the chain (the failure of
\* the last one ends the chain), a successful attempt leaves the chain with
\* its browser, and an invocation never holds more than one browser handle.
C10_OneHandle ==
    \A r \in Requests :
        /\ Cardinality(launched[r]) <= 1
        /\ browser[r] \subseteq launched[r]
        /\ pc[r] = "launch" => (launchIdx[r] \in 1..Len(LaunchChain) /\ ~Launched(r))
        /\ Launched(r) => (browser[r] = launched[r] /\ launchIdx[r] = 0)

C10_LaunchStep ==
    \A r \in Requests :
        (pc[r] = "launch" /\ launchIdx'[r] # launchIdx[r]) =>
            \/ /\ Launched(r)' /\ pc'[r] = "newPage" /\ launchIdx'[r] = 0
            \/ /\ ~Launched(r)' /\ pc'[r] = "launch"
               /\ launchIdx'[r] = launchIdx[r] + 1
            \/ /\ ~Launched(r)' /\ pc'[r] = "catch"
               /\ launchIdx[r] = Len(LaunchChain)
               /\ error'[r] = Some(LaunchFailedError)

C10_FirstSuccessWins == [](C10_OneHandle) /\ [][C10_LaunchStep]_vars

\* C10 witness: one invocation holds the browser of a successful attempt
\* while another one, all earlier attempts having raised, is at the last
\* configuration of the chain.
C10_Witness ==
    \E r, q \in Requests :
        /\ Launched(r) /\ pc[r] = "newPage"
        /\ pc[q] = "launch" /\ launchIdx[q] = Len(LaunchChain)

(***************************************************************************)
(* The fallback chain when no launch succeeds                              *)
(***************************************************************************)
\* the launch phase of a valid request is over and returned no browser
AllLaunchesFailed(r) ==
    validateForwardingUrl(url[r]) /\ pc[r] # "launch" /\ launched[r] = {}

\* executable path and headless mode of the attempts, in the order claimed
C11_Order ==
    << <<"configured", "new">>,
       <<"/usr/bin/chromium", "true">>, <<"/usr/bin/chromium", "false">>,
       <<"/usr/bin/google-chrome-stable", "true">>,
       <<"/usr/bin/google-chrome-stable", "false">>,
       <<"/usr/bin/chromium-browser", "true">>,
       <<"/usr/bin/chromium-browser", "false">>,
       <<"/usr/bin/google-chrome", "true">>, <<"/usr/bin/google-chrome", "false">>,
       <<"/snap/bin/chromium", "true">>, <<"/snap/bin/chromium", "false">>,
       <<"auto", "true">>, <<"auto", "false">> >>

C11_Tried(r) ==
    [k \in 1..Len(launchLog[r]) |->
        <<launchLog[r][k].executablePath, launchLog[r][k].headless>>]

C12_LaunchFailureIsInternalError ==
    \A r \in Requests :
        Done(r) /\ AllLaunchesFailed(r) =>
            \A res \in result[r] :
                /\ ~res.success
                /\ res.message = "Internal error during email forwarding process"

(***************************************************************************)
(* Navigation                                                              *)
(***************************************************************************)
\* the navigation loop was entered and left without a successful page.goto
NavigationExhausted(r) ==
    navigationSuccess[r] = Some(FALSE) /\ pc[r] \notin {"goto", "navDelay"}

C13_Attempts ==
    \A r \in Requests :
        /\ pc[r] = "goto" => attempt[r] \in 1..3
        /\ pc[r] = "navDelay" => attempt[r] \in 1..2
        /\ navigationSuccess[r] = Some(TRUE) => pc[r] \notin {"goto", "navDelay"}

C13_NavStep ==
    \A r \in Requests :
        \* page.goto settles
        /\ pc[r] = "goto" /\ pc'[r] # "goto" =>
              \/ /\ pc'[r] = "settle"
                 /\ navigationSuccess'[r] = Some(TRUE)
              \/ /\ pc'[r] = "navDelay"
                 /\ attempt[r] \in 1..2 /\ attempt'[r] = attempt[r]
                 /\ navigationSuccess'[r] = Some(FALSE)
              \/ /\ pc'[r] = "catch"
                 /\ attempt[r] = 3
                 /\ navigationSuccess'[r] = Some(FALSE)
        \* the delay is followed by the next attempt
        /\ pc[r] = "navDelay" /\ pc'[r] # "navDelay" =>
              pc'[r] = "goto" /\ attempt'[r] = attempt[r] + 1
        \* an attempt is the first one or follows a delay
        /\ pc'[r] = "goto" /\ pc[r] # "goto" =>
              \/ pc[r] = "navDelay"
              \/ pc[r] = "setExtraHTTPHeaders" /\ attempt'[r] = 1
        \* after a successful attempt the detection comes next
        /\ pc[r] = "settle" /\ pc'[r] # "settle" =>
              pc'[r] = "check_wait" /\ checkSite'[r] = "pre"

C14_NavigationFailedResult ==
    \A r \in Requests :
        Done(r) /\ NavigationExhausted(r) =>
            /\ result[r] = Some(FailureResult(NavigationFailedError(url[r]), url[r]))
            /\ closeCalls[r] >= 1

\* C15: when page.goto rejects on every call, the result has success=false
\* and the message "Internal error during email forwarding process", and
\* browser.close() has been called.
C15_GotoFailureIsInternalError ==
    \A r \in Requests :
        Done(r) /\ NavigationExhausted(r) =>
            /\ closeCalls[r] >= 1
            /\ \A res \in result[r] :
                  /\ ~res.success
                  /\ res.message = "Internal error during email forwarding process"

C15_Witness ==
    \E r \in Requests :
        Done(r) /\ NavigationExhausted(r) /\ result[r] # None /\ closeCalls[r] = 1

(***************************************************************************)
(* Shape of the results                                                    *)
(***************************************************************************)
\* C16: in every result returned, alreadyConfirmed=true implies success=true;
\* no failure result carries alreadyConfirmed=true.
C16_AlreadyConfirmedImpliesSuccess ==
    \A r \in Requests :
        \A res \in result[r] :
            /\ res.alreadyConfirmed = Some(TRUE) => res.success
            /\ ~res.success => res.alreadyConfirmed # Some(TRUE)

\* the pre-click detection found the page confirmed and the invocation failed
\* all the same (the close raised)
C16_Witness ==
    \E r \in Requests :
        /\ Done(r) /\ alreadyConfirmed[r] = Some(TRUE)
        /\ \E res \in result[r] : ~res.success

(***************************************************************************)
(* responseTime                                                            *)
(***************************************************************************)
C17_Range ==
    \A r \in Requests :
        /\ \A t \in responseTime[r] :
              t \in Int /\ t >= 0 /\ t <= now - operationStart[r]
        /\ Done(r) => responseTime[r] # None

C17_Measure ==
    \A r \in Requests :
        responseTime'[r] # responseTime[r] =>
            responseTime'[r] = Some(now - operationStart[r])

\* C17: for every terminal outcome the result's responseTime is an integer
\* number of milliseconds, at least 0, measured from the start of the
\* invocation, under a clock that never decreases.
C17_ResponseTime == [](C17_Range) /\ [][C17_Measure]_vars

\* the clock advanced between the start and a returned failure
C17_Witness ==
    \E r \in Requests :
        /\ Done(r) /\ error[r] # None
        /\ \E t \in responseTime[r] : t >= 2

\* C18: every failure result (InvalidUrlFormat, BrowserLaunchFailed,
\* NavigationFailed, ButtonNotFound, ConfirmationFailed, Unknown) carries the
\* request's url in its url field.
C18_FailureCarriesUrl ==
    \A r \in Requests :
        \A res \in result[r] :
            ~res.success => res.url = Some(url[r])

(***************************************************************************)
(* Request timeout and caller disconnect                                   *)
(***************************************************************************)
\* the request of r timed out or lost its caller
C19_Abandoned(r) == httpStatus[r] = Some(408) \/ clientGone[r]

\* a step of the HTTP layer leaves the pipeline of the request as it is
C19_HttpStep ==
    \A r \in Requests :
        (httpStatus'[r] # httpStatus[r] \/ clientGone'[r] # clientGone[r]) =>
            /\ pc'[r] = pc[r] /\ browser'[r] = browser[r]
            /\ error'[r] = error[r] /\ result'[r] = result[r]
            /\ closeCalls'[r] = closeCalls[r]

C20_OwnHandle ==
    \A r \in Requests :
        /\ browser[r] \subseteq launched[r]
        /\ Cardinality(launched[r]) <= 1
        /\ \A q \in Requests \ {r} : launched[r] \cap launched[q] = {}

C20_OpenBound ==
    /\ openHandles \subseteq UNION {launched[r] : r \in Requests}
    /\ Cardinality(openHandles) <= Cardinality({r \in Requests : InFlight(r)})

\* a handle is closed by a step of the invocation that launched it
C20_CloseStep ==
    \A h \in openHandles \ openHandles' :
        \E r \in Requests :
            h \in launched[r] /\ pc'[r] # pc[r] /\ closeCalls'[r] = closeCalls[r] + 1

\* C20: with several invocations interleaved at their suspension points, each
\* invocation launches and owns its own browser handle: none navigates,
\* queries, clicks on or closes a handle launched by another, and the number
\* of open handles never exceeds the number of in-flight invocations.
C20_HandleIsolation ==
    [](C20_OwnHandle /\ C20_OpenBound) /\ [][C20_CloseStep]_vars

\* two invocations hold open handles at the same time, and one of them is
\* closing its handle
C20_Witness ==
    \E r, q \in Requests :
        /\ r # q /\ browser[r] # None /\ browser[q] # None
        /\ browser[r] \cup browser[q] \subseteq openHandles
        /\ pc[r] = "catchClose" /\ pc[q] = "sel_click"

(***************************************************************************)
(* The HTTP interface                                                      *)
(***************************************************************************)
\* the route handler of POST /accept-forwarding has run to its end
Handled(r) ==
    /\ req[r].path = "/accept-forwarding"
    /\ pc[r] = "done"
    /\ hstage[r] \in {"finished", "crashed"}

\* the write of the try block raised
TryRaised(r) ==
    \E i \in DOMAIN writes[r] : writes[r][i].by = "handler" /\ ~writes[r][i].sent

\* C21: the handler maps the outcome to the status code: a result with
\* success=true gives 200, one with success=false gives 400, an exception
\* escaping the try block gives 500; in each case the body carries requestId
\* and timestamp.
C21_StatusMapping ==
    \A r \in Requests :
        Handled(r) =>
            \E out \in result[r] : \E i \in DOMAIN writes[r] :
                LET w == writes[r][i] IN
                /\ w.sent /\ w.requestId # None /\ w.timestamp
                /\ httpStatus[r] = Some(w.status)
                /\ IF TryRaised(r)
                   THEN w.by = "handlerCatch" /\ w.status = 500
                   ELSE /\ w.by = "handler"
                        /\ w.status = IF out.success THEN 200 ELSE 400

\* C22: with API-key authentication required, a POST /accept-forwarding
\* request reaches the handler only with a key of the configured list; a
\* missing key is answered 401, a key not in the list 403, and
\* acceptEmailForwardingRequest is not invoked in either case; /health,
\* /metrics and /api-docs are served without a key.
C22_ApiKeyGuardsHandler ==
    apiKeyRequired =>
        \A r \in Requests :
            (hstage[r] # "none" /\ ~req[r].limited) =>
                IF apiKeyAuth(req[r].path, req[r].apiKey) # 0
                THEN /\ pc[r] = "idle"
                     /\ Len(writes[r]) >= 1
                     /\ writes[r][1].status = apiKeyAuth(req[r].path, req[r].apiKey)
                ELSE req[r].path # "/accept-forwarding" =>
                         /\ Len(writes[r]) = 1
                         /\ writes[r][1].status = 200

\* the caller sent an identifier in the x-request-id header
SuppliedId(r) == req[r].sentId \notin {None, Some("")}

\* C23: a request that supplies an x-request-id header gets that identifier
\* back as requestId in the response body, a request without one gets a
\* generated identifier, and the identifier is the same in every response
\* and log event of the request.
C23_RequestIdEchoed ==
    \A r \in Requests :
        req[r].path = "/accept-forwarding" =>
            /\ IF SuppliedId(r)
               THEN req[r].requestId = req[r].sentId
               ELSE \E g \in GeneratedIds : req[r].requestId = Some(g)
            /\ \A i \in DOMAIN writes[r] : writes[r][i].requestId = req[r].requestId

(***************************************************************************)
(* The order of the steps of one invocation                                *)
(***************************************************************************)
\* the position of a location of acceptEmailForwardingRequest in the sequence
\* validate, launch, newPage, navigate, settle, detection, activation, settle,
\* verification, close, catch, result
C24_Rank(l, site) ==
    CASE l = "idle" -> 0
      [] l = "launch" -> 1
      [] l \in {"newPage", "setUserAgent", "setViewport", "setExtraHTTPHeaders"} -> 2
      [] l \in {"goto", "navDelay"} -> 3
      [] l = "settle" -> 4
      [] l \in {"check_wait", "check_eval"} /\ site = "pre" -> 5
      [] l \in {"click_wait", "click_sleep", "sel_query", "sel_visible",
                "sel_click", "sel_queryAll", "btn_text", "btn_click", "diag"} -> 6
      [] l = "postClickWait" -> 7
      [] l \in {"check_wait", "check_eval"} /\ site = "post" -> 8
      [] l = "verifyDelay" -> 8
      [] l \in {"close", "closeConfirmed"} -> 9
      [] l \in {"catch", "catchClose"} -> 10
      [] l \in {"done", "raised"} -> 11

C24_Guards ==
    \A r \in Requests :
        \* no launch before the validation passed
        /\ (launchIdx[r] > 0 \/ launched[r] # {} \/ driverUsed[r])
               => validateForwardingUrl(url[r])
        \* no detection before a navigation attempt succeeded
        /\ (checkSite[r] # "none" \/ alreadyConfirmed[r] # None)
               => navigationSuccess[r] = Some(TRUE)
        \* no activation before the pre-click detection returned false
        /\ (C24_Rank(pc[r], checkSite[r]) \in 6..8 \/ clickTried[r])
               => alreadyConfirmed[r] = Some(FALSE)
        \* no verification check before a click succeeded
        /\ (checkSite[r] = "post" \/ verifyChecks[r] > 0 \/ pc[r] = "postClickWait")
               => clicks[r] = 1

C24_Forward ==
    \A r \in Requests :
        LET from == C24_Rank(pc[r], checkSite[r])
            to   == C24_Rank(pc'[r], checkSite'[r])
        IN  /\ to >= from
            \* below the close, a step stays in its stage or enters the next
            \* one, or leaves the sequence for the catch clause
            /\ (from < 9 /\ to # 10) =>
                   \/ to \in {from, from + 1}
                   \/ from = 5 /\ to = 9     \* already confirmed: close
                   \/ from = 8 /\ to = 9
            \* the detection is entered from the settle delay only, the
            \* verification from the delay after the click only
            /\ (to = 5 /\ from # 5) => pc[r] = "settle"
            /\ (to = 8 /\ from # 8) => pc[r] = "postClickWait"

\* C24: within one invocation the steps occur in the order validate, launch,
\* newPage, navigate, settle delay, pre-click detection, activation, settle
\* delay, post-click verification, terminal result, one at a time: no launch
\* before the validation passed, no detection before a navigation attempt
\* succeeded and the settle delay elapsed, no click before the pre-click
\* detection returned false, no verification check before a click succeeded.
C24_StepOrder == [](C24_Guards) /\ [][C24_Forward]_vars

C24_Witness ==
    \E r \in Requests :
        /\ pc[r] = "done" /\ result[r] = Some(ConfirmedResult(url[r]))
        /\ alreadyConfirmed[r] = Some(FALSE) /\ clicks[r] = 1
        /\ verifyChecks[r] = VerifyAttempts

(***************************************************************************)
(* The verification after the click                                        *)
(***************************************************************************)
\* C25: the verification after the click runs the detector at most 3 times,
\* with a delay between two checks and none after the last; it stops at the
\* first check that returns true and yields success with
\* alreadyConfirmed=false, and it yields ConfirmationFailed only when all 3
\* checks returned false.
C25_Verification ==
    \A r \in Requests :
        /\ verifyChecks[r] <= VerifyAttempts
        \* a delay follows a check that returned false and was not the last
        /\ pc[r] = "verifyDelay" =>
               ~isConfirmed[r] /\ verifyChecks[r] < VerifyAttempts
        \* no check after one that returned true
        /\ isConfirmed[r] => checkSite[r] = "none" /\ pc[r] # "verifyDelay"
        /\ (Done(r) /\ isConfirmed[r]) =>
               result[r] = Some(ConfirmedResult(url[r]))
        /\ (Done(r) /\ \E res \in result[r] :
                          res.message = ConfirmationFailedError(url[r]).message) =>
               ~isConfirmed[r] /\ verifyChecks[r] = VerifyAttempts

(***************************************************************************)
(* The order of the selector strategies                                    *)
(***************************************************************************)
\* the locations of the loop over the selectors
C26_InLoop(l) ==
    l \in {"sel_query", "sel_visible", "sel_click", "sel_queryAll", "btn_text",
           "btn_click"}

\* the kind of strategy of selector i in the words of the order exact-value
\* input (1), partial-value input (2), generic submit button (3),
\* text-content scan (4)
C26_Kind(i) ==
    CASE selectors[i] \in {"input[value='Confirm']", "input[value='Yes']",
                           "button[value='Yes']"} -> 1
      [] selectors[i] \in {"input[value*='Confirm']",
                           "input[type='submit'][value*='Confirm']"} -> 2
      [] selectors[i] = "button[type='submit']" -> 3
      [] selectors[i] = "button:contains('Confirm')" -> 4

\* at most one successful click, and none while the loop is still running
C26_OneClick ==
    \A r \in Requests :
        /\ clicks[r] <= 1
        /\ C26_InLoop(pc[r]) => clicks[r] = 0 /\ selIdx[r] \in 1..Len(selectors)
        /\ pc[r] = "sel_queryAll" => isContainsSelector(selIdx[r])
        /\ pc[r] = "sel_query" => ~isContainsSelector(selIdx[r])

\* a successful click ends the activator: no further selector is queried
C26_FirstWins ==
    \A r \in Requests :
        clicks'[r] # clicks[r] =>
            /\ clicks'[r] = clicks[r] + 1
            /\ pc'[r] = "postClickWait" /\ selIdx'[r] = 0

\* the strategies are tried in the order of their kinds
C26_KindOrder ==
    \A r \in Requests :
        (C26_InLoop(pc[r]) /\ C26_InLoop(pc'[r]) /\ selIdx'[r] # selIdx[r]) =>
            C26_Kind(selIdx'[r]) >= C26_Kind(selIdx[r])

\* the selectors are tried in the order of the list, one after the other
C26_ListOrder ==
    \A r \in Requests :
        selIdx'[r] # selIdx[r] =>
            \/ pc[r] = "click_sleep" /\ selIdx'[r] = 1
            \/ /\ C26_InLoop(pc[r]) /\ C26_InLoop(pc'[r])
               /\ selIdx'[r] = selIdx[r] + 1
            \/ /\ C26_InLoop(pc[r]) /\ selIdx'[r] = 0
               /\ \/ pc'[r] = "postClickWait"
                  \/ pc'[r] = "diag" /\ selIdx[r] = Len(selectors)

\* C26 as stated: the strategies are tried in the priority order exact-value
\* submit input, partial-value submit input, generic submit button, then the
\* text-content scan, and the first successful click ends the activator, so
\* that an invocation performs at most one successful click.
C26_ClaimedOrder == [](C26_OneClick) /\ [][C26_KindOrder /\ C26_FirstWins]_vars

\* C26, amended: the seven selectors are tried in the order of the list, in
\* which a partial-value submit input follows the generic submit button and
\* two exact-value selectors follow the text-content scan; the first
\* successful click ends the activator, so that an invocation performs at
\* most one successful click.
C26_SelectorOrder == [](C26_OneClick) /\ [][C26_ListOrder /\ C26_FirstWins]_vars

C26_Witness ==
    \E r, q \in Requests :
        /\ clicks[r] = 1 /\ pc[r] = "postClickWait"
        /\ clicks[q] = 0 /\ clickTried[q]
        /\ pc[q] = "sel_click" /\ selIdx[q] = Len(selectors)

(***************************************************************************)
(* Visibility of the control that is clicked                               *)
(***************************************************************************)
\* C27: the activator clicks only a control that is visible at the time of the
\* click: under every strategy, the text-content scan included, a matching
\* control that is not visible is never clicked.
C27_OnlyVisibleClicked ==
    \A r \in Requests : ~clickedHidden[r]

(***************************************************************************)
(* The detector and the URL validation as functions                        *)
(***************************************************************************)
\* the core of a page text shows a confirmation phrase, in lower or upper case
C28_Shows(core) ==
    \/ core \in confirmationTexts
    \/ \E p \in confirmationTexts : core = toUpperCase(p)
    \/ \E p, q \in confirmationTexts : core = p \o <<" ">> \o q

C28_Result ==
    fnCall.fn = "checkIfAlreadyConfirmed" =>
        \A b \in fnCall.out :
            b = (~fnCall.raised /\ C28_Shows(fnCall.core))

\* at both call sites the detector ends with a value, never in the catch clause
C28_Sites ==
    \A r \in Requests :
        pc[r] \in {"check_wait", "check_eval"} =>
            /\ checkSite[r] \in {"pre", "post"}
            /\ pc'[r] # "catch" /\ error'[r] = error[r]
            /\ pc'[r] \notin {"check_wait", "check_eval"} =>
                   IF checkSite[r] = "pre"
                   THEN alreadyConfirmed'[r] # None /\ verifyChecks'[r] = verifyChecks[r]
                   ELSE /\ verifyChecks'[r] = verifyChecks[r] + 1
                        /\ alreadyConfirmed'[r] = alreadyConfirmed[r]

\* C28: the detector returns true exactly when the lower-cased page text
\* contains at least one of the confirmation phrases, whatever the order of
\* the phrases, and returns false, without raising, when waiting for or
\* reading the page fails; the pre-click and the post-click call site run the
\* same implementation.
C28_Detector == [](C28_Result) /\ [][C28_Sites]_vars

C28_Witness ==
    /\ fnCall.fn = "checkIfAlreadyConfirmed" /\ fnCall.out = Some(TRUE)
    /\ fnCall.lead # <<>>
    /\ \E p \in confirmationTexts : fnCall.core = toUpperCase(p)
    /\ pc[1] = "check_eval" /\ checkSite[1] = "post"

C29_Result ==
    fnCall.fn = "validateForwardingUrl" =>
        \A b \in fnCall.out :
            b = (fnCall.lead = <<>> /\ fnCall.core = UrlPrefix)

\* a call changes nothing but its own result
C29_Pure ==
    fnCall' # fnCall =>
        /\ UNCHANGED serviceVars
        /\ Argument(fnCall') = Argument(fnCall)

\* C29: validateForwardingUrl returns true for a string exactly when the
\* string begins with the prefix "https://mail-settings.google.com/mail",
\* compared case-sensitively, and false for every other string (other scheme,
\* other host, other letter case, prefix not at position 0); it has no side
\* effect.
C29_ValidateForwardingUrl == [](C29_Result) /\ [][C29_Pure]_vars

C29_Witness ==
    /\ fnCall.fn = "validateForwardingUrl" /\ fnCall.out = Some(FALSE)
    /\ fnCall.lead = <<" ">> /\ fnCall.core = UrlPrefix

(***************************************************************************)
(* No use of a handle after its close                                      *)
(***************************************************************************)
\* C30: once browser.close() has been invoked on a handle, no further
\* operation is invoked on the handle or on its page in the same invocation:
\* no goto, text read, query or click, and no second close.
C30_NoUseAfterClose ==
    \A r \in Requests :
        closeCalls[r] >= 1 =>
            /\ pc[r] \in {"catch", "done"}
            /\ closeCalls[r] = 1

(***************************************************************************)
(* Termination                                                             *)
(***************************************************************************)
\* the budgets of the loops: launch attempts, navigation attempts, checks
C31_Budgets ==
    \A r \in Requests :
        /\ launchIdx[r] <= 13
        /\ Len(launchLog[r]) <= 13
        /\ pc[r] \in {"goto", "navDelay"} => attempt[r] \in 1..3
        /\ verifyChecks[r] <= 3
        /\ checkSite[r] = "post" => attempt[r] \in 1..3
        /\ checkSite[r] = "pre" => alreadyConfirmed[r] = None

\* the pre-click detection is run once: its result is set once and kept
C31_OneDetection ==
    \A r \in Requests :
        /\ alreadyConfirmed[r] # None => alreadyConfirmed'[r] = alreadyConfirmed[r]
        /\ checkSite'[r] = "pre" /\ checkSite[r] # "pre" => pc[r] = "settle"

\* C31: every invocation of acceptEmailForwardingRequest ends with a result,
\* provided each driver operation returns or fails: it makes at most 13
\* launch attempts, at most 3 navigation attempts, at most 1 pre-click
\* detection and at most 3 verification checks, and no loop goes on for ever.
C31_Terminates ==
    /\ [](C31_Budgets)
    /\ [][C31_OneDetection]_vars
    /\ \A r \in Requests : InFlight(r) ~> (Done(r) /\ result[r] # None)

C31_Witness ==
    \E r, q \in Requests :
        /\ Done(r) /\ result[r] # None /\ AllLaunchesFailed(r)
        /\ Done(q) /\ result[q] # None /\ verifyChecks[q] = 3

(***************************************************************************)
(* Metrics                                                                 *)
(***************************************************************************)
\* C32: each invocation calls trackEmailForwardingEnd exactly once for its one
\* trackEmailForwardingStart, on every outcome: the gauge of active browsers
\* is never negative, equals the number of invocations in flight, is back at
\* its initial value when none is in flight, and each request is counted once
\* in the success/failure counter.
C32_EndOncePerStart ==
    /\ puppeteerBrowsersActive >= 0
    /\ puppeteerBrowsersActive = Cardinality({r \in Requests : InFlight(r)})
    /\ \A r \in Requests :
          /\ Len(ended[r]) <= 1
          /\ Done(r) => Len(ended[r]) = 1
          /\ Len(ended[r]) = 1 => Done(r)

(***************************************************************************)
(* The timer of requestTimeout and the response of the handler             *)
(***************************************************************************)
\* C33: at most one HTTP response is written for a POST /accept-forwarding
\* request: however the timer of requestTimeout and the completion of the
\* handler interleave, the 408 response and the handler's response are never
\* both sent, and the handler never attempts a write after the 408 response
\* was sent.
C33_OneResponse ==
    \A r \in Requests :
        req[r].path = "/accept-forwarding" =>
            /\ Cardinality({i \in DOMAIN writes[r] : writes[r][i].sent}) <= 1
            /\ httpStatus[r] = Some(408) =>
                   \A i \in DOMAIN writes[r] :
                       writes[r][i].by \notin {"handler", "handlerCatch"}
            /\ hstage[r] # "crashed"

(***************************************************************************)
(* What a success result rests on                                          *)
(***************************************************************************)
C34_Grounds ==
    \A r \in Requests :
        \A res \in result[r] :
            /\ res.success =>
                   alreadyConfirmed[r] = Some(TRUE) \/ isConfirmed[r]
            /\ (res.success /\ res.alreadyConfirmed = Some(FALSE)) =>
                   /\ alreadyConfirmed[r] = Some(FALSE)
                   /\ clicks[r] = 1
                   /\ isConfirmed[r] /\ verifyChecks[r] >= 1

\* the click comes before every verification check
C34_ClickFirst ==
    \A r \in Requests :
        verifyChecks'[r] # verifyChecks[r] =>
            clicks[r] = 1 /\ clicks'[r] = 1 /\ alreadyConfirmed[r] = Some(FALSE)

\* C34: a result with success=true is returned only if a detector check
\* returned true in the invocation; a result with success=true and
\* alreadyConfirmed=false only if, besides, the pre-click detection returned
\* false and exactly one click succeeded before the check that returned true.
C34_SuccessIsGrounded == [](C34_Grounds) /\ [][C34_ClickFirst]_vars

C34_Witness ==
    \E r, q \in Requests :
        /\ Done(r) /\ result[r] = Some(ConfirmedResult(url[r]))
        /\ verifyChecks[r] = 2 /\ clicks[r] = 1
        /\ Done(q) /\ result[q] = Some(AlreadyConfirmedResult(url[q]))
        /\ clicks[q] = 0

(***************************************************************************)
(* The outcome recorded in the metrics                                     *)
(***************************************************************************)
\* C35: the outcome recorded in the metrics agrees with the result returned:
\* trackEmailForwardingEnd is called with success=true only in invocations
\* that return success=true and with success=false only in invocations that
\* return success=false, also when browser.close() raises.
C35_MetricsAgree ==
    \A r \in Requests :
        \A i \in DOMAIN ended[r] :
            /\ ended[r][i] => Done(r)
            /\ \A res \in result[r] : ended[r][i] = res.success

C35_Witness ==
    \E r \in Requests :
        /\ Done(r) /\ closeFailed[r] /\ isConfirmed[r]
        /\ ended[r] = <<FALSE>>
        /\ \E res \in result[r] : ~res.success

(***************************************************************************)
(* A click that raises                                                     *)
(***************************************************************************)
\* a click that raised is followed by the next selector, never by the catch
\* clause
C36_Swallowed ==
    \A r \in Requests :
        (pc[r] \in {"sel_click", "btn_click"} /\ clicks'[r] = clicks[r]) =>
            /\ pc'[r] # "catch" /\ error'[r] = error[r]
            /\ pc'[r] = "diag" => selIdx[r] = Len(selectors)

\* the text scan is left without a click only after its last button
C36_ScanComplete ==
    \A r \in Requests :
        (pc[r] \in {"btn_text", "btn_click"} /\ selIdx'[r] # selIdx[r]
            /\ clicks'[r] = clicks[r]) =>
                btnIdx[r] = buttons[r]

\* ButtonNotFound follows the last selector only
C36_AfterLast ==
    \A r \in Requests :
        (pc'[r] = "diag" /\ pc[r] # "diag") => selIdx[r] = Len(selectors)

\* C36: a click that raises does not end the activator: the failure is
\* swallowed and the next selector is tried, ButtonNotFound is reported only
\* after every selector has been tried, and within the text-content scan
\* every button-like element whose text matches is considered before the scan
\* gives up.
C36_ClickFailureSwallowed ==
    [][C36_Swallowed /\ C36_ScanComplete /\ C36_AfterLast]_vars

(***************************************************************************)
(* The diagnostic inventory                                                *)
(***************************************************************************)
\* C37: when no strategy activates a control, a failure while capturing the
\* diagnostic inventory of the button-like elements does not change the
\* outcome: the activator still fails with ButtonNotFound, and the inventory
\* is no part of the result returned.
C37_DiagnosticsDoNotMatter ==
    \A r \in Requests :
        \* the activator was left by its last statement
        (pc[r] \in {"catch", "catchClose", "done"} /\ clicks[r] = 0
            /\ alreadyConfirmed[r] = Some(FALSE)) =>
                /\ error[r] = Some(ButtonNotFoundError)
                /\ Done(r) =>
                       result[r] = Some(FailureResult(ButtonNotFoundError, url[r]))

C37_Witness ==
    \E r, q \in Requests :
        /\ Done(r) /\ diagFailed[r]
        /\ result[r] = Some(FailureResult(ButtonNotFoundError, url[r]))
        /\ Done(q) /\ ~diagFailed[q] /\ result[q] = result[r]

====
